---- MODULE Spec2Model ----
(***************************************************************************)
(* DTP (Deadline-aware Transport Protocol): the deadline-aware priority    *)
(* scheduler, its batching and the FIFO scheduler                          *)
(* (backend/src/scheduler.py),                                             *)
(* the header codec and the packet (backend/src/protocol.py), the token    *)
(* bucket, the congestion controller and the admission controller          *)
(* (backend/src/rate_control.py), the metrics recorded by the client and the *)
(* server of a simulation (backend/src/metrics.py, client.py, server.py), the *)
(* receiver (server.py), the life of the client and of the servers: start, *)
(* stop, pause and their threads (client.py, server.py), the simulation    *)
(* engine and its completion monitor (backend/src/simulation.py), and the  *)
(* clock synchronisation (backend/src/clock_sync.py).                      *)
(*                                                                         *)
(* Time is the monotonic millisecond clock now_ms(), abstracted to small   *)
(* integers (one unit = one clock step).  The scheduler's methods run      *)
(* under the scheduler's lock, so each call is one atomic action; the      *)
(* exception is set_congested, which takes no lock: SetCongested is a call *)
(* made while no other set_congested is in progress, and the steps of      *)
(* concurrent calls are SetCongestedEnter, SetCongestedRead and            *)
(* SetCongestedWrite.  Threads that share no lock interleave between the   *)
(* reads and writes of the fields they share.                              *)
(***************************************************************************)
EXTENDS Integers, Sequences, FiniteSets, TLC

VARIABLES
    queue,          \* DTPScheduler._queue: the heapq array of QueueEntry
    max_size,       \* DTPScheduler._max_size (constructor argument queue_size)
    stats,          \* DTPScheduler._stats
    enqueue_order,  \* DTPScheduler._enqueue_order
    congested,      \* DTPScheduler._congested
    send_rate,      \* DTPScheduler._send_rate, an exact fraction <<num, den>>
    rate_changes,   \* number of set_congested calls so far (bounds the run)
    now,            \* value of now_ms()
    ret,            \* the call that has just returned: its name, packet, result
    traffic,        \* which header fields the run's offered packets vary in
    data,           \* codec: the byte buffer handed to unpack / produced by pack
    header,         \* codec: the header handed to pack; DTPPacket.header
    result,         \* codec: outcome of the last pack / unpack call
    received_at,    \* DTPPacket._received_at (None as -1)
    on_time,        \* the last latency_ms / is_on_time call and its result
    bucket,         \* TokenBucket: rate, burst, _tokens, _last_update, counters
    bucket_ret,     \* the TokenBucket call that has just returned
    bucket_hist,    \* history of the bucket: tokens at construction, tokens
                    \* added by _refill, whether reset was called, calls made
    waiter,         \* the frame of a running try_consume_or_wait call
    metrics,        \* MetricsCollector._stats: per priority, the counters
    producer,       \* DTPClient._simulation_loop: its position and packet
    in_flight,      \* datagrams sent to the server and not yet received
    server,         \* DTPServer._handle_packet: its position and packet
    cc,             \* CongestionController: parameters and current state
    cc_ret,         \* the CongestionController call that has just returned
    cc_hist         \* history of the controller: steps taken, and the
                    \* acknowledgements reported since its ack count was
                    \* last zeroed, with the rate at that moment; the call
                    \* that last decreased the rate
VARIABLES
    admission,      \* AdmissionController: its buckets, statistics and flag
    adm_ret         \* the AdmissionController call that has just returned
VARIABLES
    mode,           \* DTPClient.mode: which scheduler the client constructed
    simple,         \* SimpleScheduler: _queue, _max_size, _send_rate,
                    \* _congested, _stats
    simple_ret,     \* the SimpleScheduler call that has just returned
    simple_hist     \* history of the SimpleScheduler: enqueue and
                    \* set_congested calls made, the packets accepted (and not
                    \* cleared) and the packets returned, in order
VARIABLES
    setter,         \* the frame of each thread inside DTPScheduler.set_congested:
                    \* its position, its argument, the _send_rate it read
    set_calls       \* set_congested calls returned so far, by argument
VARIABLES
    batching,       \* DTPScheduler: _batch_size, _batch_timeout_ms,
                    \* _current_batch, _batch_start_time, _batch_id and
                    \* _stats['batches_sent']
    batch_ret,      \* the batching call that has just returned, and its result
    batch_hist      \* history of the batching: calls made, and the batch_id
                    \* of every non-empty flush, in order
VARIABLES
    sync,           \* the frame of ClockSyncClient.sync: its position, the
                    \* round, the round's t1, the offsets and rtts so far
    sync_net,       \* clock-sync datagrams in flight, to the server and
                    \* to the client's socket
    sync_server,    \* ClockSyncServer: how far its clock is ahead of the
                    \* client's (theta), and _requests_handled
    clock_offset,   \* clock_sync._global_clock_offset, an exact fraction
    sync_ret,       \* what the last sync_with_server call returned
    sync_hist       \* history of the clock synchronisation: calls and
                    \* rounds made, the register before the running call,
                    \* and for each round of that call what happened in it
VARIABLES
    subsystem,      \* which of the client, the server and the clock-sync
                    \* responder the run starts and stops
    client,         \* DTPClient: _running, _paused, the socket, where its
                    \* receive thread, its _simulation_loop thread and the
                    \* sender_loop thread are, the Timer threads started
                    \* and the calls of the congestion callback
    responses,      \* datagrams on their way to the client's socket
    responder       \* DTPServer / ClockSyncServer: _running and where
                    \* the _receive_loop / _serve_loop thread is
VARIABLES
    engine          \* SimulationEngine: _state, _running, _client,
                    \* _server, _results, where a stop() call and each
                    \* run's _monitor_completion thread are

vars == <<queue, max_size, stats, enqueue_order, congested, send_rate,
          rate_changes, now, ret, traffic, data, header, result,
          received_at, on_time, bucket, bucket_ret, bucket_hist, waiter,
          metrics, producer, in_flight, server, cc, cc_ret, cc_hist,
          admission, adm_ret,
          mode, simple, simple_ret, simple_hist,
          setter, set_calls,
          batching, batch_ret, batch_hist,
          sync, sync_net, sync_server, clock_offset, sync_ret, sync_hist,
          subsystem, client, responses, responder,
          engine>>

schedVars == <<queue, max_size, stats, enqueue_order, congested, send_rate,
               rate_changes, now, ret, traffic>>

codecVars == <<data, header, result>>

packetVars == <<received_at, on_time>>

bucketVars == <<bucket, bucket_ret, bucket_hist, waiter>>

simVars == <<metrics, producer, in_flight, server>>

ccVars == <<cc, cc_ret, cc_hist>>

admVars == <<admission, adm_ret>>

simpleVars == <<mode, simple, simple_ret, simple_hist>>

raceVars == <<setter, set_calls>>

batchVars == <<batching, batch_ret, batch_hist>>

syncVars == <<sync, sync_net, sync_server, clock_offset, sync_ret, sync_hist>>

lifeVars == <<subsystem, client, responses, responder>>

engineVars == <<engine>>

\* what a call on the scheduler, the codec, a packet, a token bucket, what
\* a step of the client-server simulation, and what a call on the
\* congestion controller leaves alone
notSchedVars == <<codecVars, packetVars, bucketVars, simVars, ccVars,
    admVars,
    simpleVars,
    raceVars,
    batchVars,
    syncVars,
    lifeVars,
    engineVars>>
notCodecVars == <<schedVars, packetVars, bucketVars, simVars, ccVars,
    admVars,
    simpleVars,
    raceVars,
    batchVars,
    syncVars,
    lifeVars,
    engineVars>>
notPacketVars == <<schedVars, codecVars, bucketVars, simVars, ccVars,
    admVars,
    simpleVars,
    raceVars,
    batchVars,
    syncVars,
    lifeVars,
    engineVars>>
notBucketVars == <<queue, max_size, stats, enqueue_order, congested, send_rate,
                   rate_changes, now, ret, traffic, codecVars, packetVars,
                   simVars, ccVars,
    admVars,
    simpleVars,
    raceVars,
    batchVars,
    syncVars,
    lifeVars,
    engineVars>>
notSimVars == <<codecVars, packetVars, bucketVars, ccVars,
    admVars,
    simpleVars,
    raceVars,
    batchVars,
    syncVars,
    lifeVars,
    engineVars>>
notAdmVars == <<queue, max_size, stats, enqueue_order, congested, send_rate,
                rate_changes, now, ret, traffic, codecVars, packetVars,
                bucketVars, simVars, ccVars,
    simpleVars,
    raceVars,
    batchVars,
    syncVars,
    lifeVars,
    engineVars>>
notSimpleVars == <<queue, max_size, stats, enqueue_order, congested,
                   send_rate, rate_changes, now, ret, traffic, codecVars,
                   packetVars, bucketVars, simVars, ccVars, admVars,
    raceVars,
    batchVars,
    syncVars,
    lifeVars,
    engineVars>>
notRaceVars == <<codecVars, packetVars, bucketVars, simVars, ccVars, admVars,
                 simpleVars,
    batchVars,
    syncVars,
    lifeVars,
    engineVars>>
notBatchVars == <<schedVars, codecVars, packetVars, bucketVars, simVars,
                  ccVars, admVars, simpleVars, raceVars,
    syncVars,
    lifeVars,
    engineVars>>
notSchedulerVars == <<codecVars, packetVars, bucketVars, simVars, ccVars,
                      admVars, simpleVars, raceVars,
    syncVars,
    lifeVars,
    engineVars>>
notSyncVars == <<queue, max_size, stats, enqueue_order, congested, send_rate,
                 rate_changes, ret, traffic, codecVars, packetVars,
                 bucketVars, simVars, ccVars, admVars, simpleVars, raceVars,
                 batchVars,
    lifeVars,
    engineVars>>
notLifeVars == <<schedVars, codecVars, packetVars, bucketVars, simVars,
                 ccVars, admVars, simpleVars, raceVars, batchVars, syncVars,
    engineVars>>
\* what a step of a client thread that calls the scheduler, the metrics or
\* the socket leaves alone
notClientVars == <<codecVars, packetVars, bucketVars, ccVars, admVars,
                   simpleVars, raceVars, syncVars, subsystem, responder,
    engineVars>>
\* what a step of the simulation engine leaves alone
notEngineVars == <<schedVars, codecVars, packetVars, bucketVars, simVars,
                   ccVars, admVars, simpleVars, raceVars, batchVars,
                   syncVars, lifeVars>>
notCCVars == <<queue, max_size, stats, enqueue_order, congested, send_rate,
               rate_changes, now, ret, traffic, codecVars, packetVars,
               bucketVars, simVars,
    admVars,
    simpleVars,
    raceVars,
    batchVars,
    syncVars,
    lifeVars,
    engineVars>>

---------------------------------------------------------------------------
(* Bounds of the model *)

\* largest queue_size the scheduler is constructed with
MaxQueueSize == 2
\* accepted enqueues per run (caps _enqueue_order)
MaxEnqueueOrder == 3
\* queue-full drops per run (caps _stats['dropped_full'])
MaxDroppedFull == 1
\* set_congested calls per run
MaxRateChanges == 4
\* last clock value
MaxNow == 3
\* largest burst a token bucket is constructed with
MaxBurst == 2
\* calls made on a token bucket per run
MaxBucketCalls == 3
\* steps (calls and waits) of a congestion controller per run
MaxCCSteps == 6
\* calls made on an admission controller per run
MaxAdmitCalls == 3
\* largest batch_size a scheduler is constructed with
MaxBatchSize == 3
\* add_to_batch and flush_all calls per run
MaxBatchCalls == 4
\* datagrams sent to the client's socket per run
MaxResponses == 2
\* sync_with_server calls per run
MaxSyncCalls == 2
\* clock-sync rounds per run, over all calls
MaxSyncRounds == 2

---------------------------------------------------------------------------
(* protocol.py: enumerations and constants *)

CRITICAL == 0
HIGH == 1
MEDIUM == 2
LOW == 3
Priority == {CRITICAL, HIGH, MEDIUM, LOW}

DATA == 0
ACK == 1
NACK == 2
CONGESTION == 3
KEEPALIVE == 4
PacketType == {DATA, ACK, NACK, CONGESTION, KEEPALIVE}

FLAG_NONE == 0
RELIABLE == 1
DROPPABLE == 2
BATCHED == 4

DTP_VERSION == 1
DTP_HEADER_SIZE == 24
DTP_MAGIC == 57005

Max(a, b) == IF a >= b THEN a ELSE b
Min(a, b) == IF a <= b THEN a ELSE b

\* flags & bit, for a single-bit mask
HasFlag(flags, bit) == (flags \div bit) % 2 = 1

\* DTPHeader.is_expired at clock value t
is_expired_strict_off(h, t) ==
    IF h.timestamp = 0 THEN FALSE ELSE (t - h.timestamp) >= h.deadline

is_expired(h, t) ==
    IF h.timestamp = 0 THEN FALSE ELSE (t - h.timestamp) > h.deadline

\* DTPHeader.time_to_deadline at clock value t
time_to_deadline(h, t) ==
    IF h.timestamp = 0 THEN h.deadline
    ELSE Max(0, h.deadline - (t - h.timestamp))

---------------------------------------------------------------------------
(* scheduler.py: the heap of QueueEntry *)

\* The scheduler reads only these header fields of a queued packet.
Packet(pri, fl, ts, dl) ==
    [priority |-> pri, flags |-> fl, timestamp |-> ts, deadline |-> dl]

\* "no packet": dequeue's None, and the packet slot of calls that take none
NoPacket == Packet(-1, 0, 0, 0)

\* sort_key of enqueue: (priority.value, -ttd, _enqueue_order)
sort_key_priority_reversed(p, t, order) ==
    <<LOW - p.priority, 0 - time_to_deadline(p, t), order>>

sort_key_without_order(p, t, order) ==
    <<p.priority, 0 - time_to_deadline(p, t), 0>>

sort_key(p, t, order) ==
    <<p.priority, 0 - time_to_deadline(p, t), order>>

\* QueueEntry; enqueue_time is stored by the code and never read, it is left out
QueueEntry(p, t, order) == [sort_key |-> sort_key(p, t, order), packet |-> p]

\* "no entry", for calls that return none
NoEntry == [sort_key |-> <<-1, 0, -1>>, packet |-> NoPacket]

\* QueueEntry.__lt__ (dataclass order=True over sort_key only): tuple order
EntryLess(a, b) ==
    LET x == a.sort_key
        y == b.sort_key
    IN \/ x[1] < y[1]
       \/ x[1] = y[1] /\ x[2] < y[2]
       \/ x[1] = y[1] /\ x[2] = y[2] /\ x[3] < y[3]

\* 0-based access to the heap array
At(h, i) == h[i + 1]
Put(h, i, e) == [h EXCEPT ![i + 1] = e]

\* heapq._siftdown(heap, startpos, pos) with newitem = heap[pos]
RECURSIVE siftdown_from(_, _, _, _)
siftdown_from(h, startpos, pos, newitem) ==
    IF pos > startpos
    THEN LET parentpos == (pos - 1) \div 2
         IN IF EntryLess(newitem, At(h, parentpos))
            THEN siftdown_from(Put(h, pos, At(h, parentpos)), startpos,
                               parentpos, newitem)
            ELSE Put(h, pos, newitem)
    ELSE Put(h, pos, newitem)

siftdown(h, startpos, pos) == siftdown_from(h, startpos, pos, At(h, pos))

\* heapq._siftup(heap, pos): bubble the smaller child up to a leaf, then
\* sift the displaced item down into place
RECURSIVE siftup_from(_, _, _, _)
siftup_from(h, startpos, pos, newitem) ==
    LET endpos == Len(h)
        left == 2 * pos + 1
        right == left + 1
    IN IF left < endpos
       THEN LET childpos == IF right < endpos
                               /\ ~EntryLess(At(h, left), At(h, right))
                            THEN right ELSE left
            IN siftup_from(Put(h, pos, At(h, childpos)), startpos, childpos,
                           newitem)
       ELSE siftdown(Put(h, pos, newitem), startpos, pos)

siftup(h, pos) == siftup_from(h, pos, pos, At(h, pos))

\* heapq.heappush
heappush(h, e) == siftdown(Append(h, e), 0, Len(h))

\* heapq.heappop on a non-empty heap: the popped item and the heap left
heappop(h) ==
    LET lastelt == h[Len(h)]
        rest == SubSeq(h, 1, Len(h) - 1)
    IN IF rest = <<>>
       THEN [item |-> lastelt, heap |-> rest]
       ELSE [item |-> rest[1], heap |-> siftup(Put(rest, 0, lastelt), 0)]

\* heapq.heapify: for i in reversed(range(n // 2)): _siftup(heap, i)
RECURSIVE heapify_from(_, _)
heapify_from(h, i) == IF i < 0 THEN h ELSE heapify_from(siftup(h, i), i - 1)

heapify(h) == heapify_from(h, (Len(h) \div 2) - 1)

\* del list[i] (0-based)
DeleteAt(h, i) == SubSeq(h, 1, i) \o SubSeq(h, i + 2, Len(h))

\* the scan of _drop_lowest_priority: index of the first entry, in array
\* order, holding the numerically highest priority value (-1 on an empty list)
RECURSIVE lowest_scan(_, _, _, _)
lowest_scan(h, i, lowest_pri, lowest_idx) ==
    IF i >= Len(h) THEN lowest_idx
    ELSE IF At(h, i).packet.priority > lowest_pri
         THEN lowest_scan(h, i + 1, At(h, i).packet.priority, i)
         ELSE lowest_scan(h, i + 1, lowest_pri, lowest_idx)

lowest_index(h) == lowest_scan(h, 0, -1, -1)

\* DTPScheduler._drop_lowest_priority: the queue left and the number dropped
drop_lowest_priority_uncounted(h) ==
    IF h = <<>> \/ lowest_index(h) < 0
    THEN [queue |-> h, dropped |-> 0]
    ELSE [queue |-> heapify(DeleteAt(h, lowest_index(h))), dropped |-> 0]

drop_lowest_priority(h) ==
    IF h = <<>> \/ lowest_index(h) < 0
    THEN [queue |-> h, dropped |-> 0]
    ELSE [queue |-> heapify(DeleteAt(h, lowest_index(h))), dropped |-> 1]

\* the while loop of DTPScheduler.dequeue at clock value t: pops until a
\* non-expired packet is found or the heap is empty
RECURSIVE dequeue_loop(_, _, _)
dequeue_loop(h, t, nexpired) ==
    IF h = <<>>
    THEN [queue |-> h, entry |-> NoEntry, found |-> FALSE, expired |-> nexpired]
    ELSE LET r == heappop(h)
         IN IF is_expired(r.item.packet, t)
            THEN dequeue_loop(r.heap, t, nexpired + 1)
            ELSE [queue |-> r.heap, entry |-> r.item, found |-> TRUE,
                  expired |-> nexpired]

---------------------------------------------------------------------------
(* exact fractions for the advisory send rate *)

RECURSIVE Gcd(_, _)
Gcd(a, b) == IF b = 0 THEN a ELSE Gcd(b, a % b)

Frac(n, d) == <<n \div Gcd(n, d), d \div Gcd(n, d)>>
FracMul(r, n, d) == Frac(r[1] * n, r[2] * d)
FracLess(r, s) == r[1] * s[2] < s[1] * r[2]
FracMax(r, s) == IF FracLess(r, s) THEN s ELSE r
FracMin(r, s) == IF FracLess(r, s) THEN r ELSE s
FracLeq(r, s) == ~FracLess(s, r)
FracAdd(r, s) == Frac(r[1] * s[2] + s[1] * r[2], r[2] * s[2])
FracSub(r, s) == Frac(r[1] * s[2] - s[1] * r[2], r[2] * s[2])
\* an int as a fraction
Whole(n) == <<n, 1>>

---------------------------------------------------------------------------
(* protocol.py: DTPHeader.pack / DTPHeader.unpack, format '>HBBBBHIQHH' *)

\* big-endian encoding of v in n bytes (struct.pack of one unsigned field)
RECURSIVE to_bytes(_, _)
to_bytes(v, n) ==
    IF n = 0 THEN <<>> ELSE Append(to_bytes(v \div 256, n - 1), v % 256)

\* big-endian decoding (struct.unpack of one unsigned field)
RECURSIVE from_bytes(_)
from_bytes(b) ==
    IF b = <<>> THEN 0
    ELSE 256 * from_bytes(SubSeq(b, 1, Len(b) - 1)) + b[Len(b)]

\* 256^n
RECURSIVE Pow256(_)
Pow256(n) == IF n = 0 THEN 1 ELSE 256 * Pow256(n - 1)

\* whether v fits an unsigned field of n bytes; the model's integers stay
\* below 2^31, which every field of 4 or more bytes holds
FitsField(v, n) == v >= 0 /\ (n >= 4 \/ v < Pow256(n))

Header(ver, ty, pri, fl, seq, ts, dl, plen, batch) ==
    [version |-> ver, packet_type |-> ty, priority |-> pri, flags |-> fl,
     sequence |-> seq, timestamp |-> ts, deadline |-> dl,
     payload_length |-> plen, batch_id |-> batch]

\* DTPHeader() defaults
DefaultHeader == Header(DTP_VERSION, DATA, MEDIUM, FLAG_NONE, 0, 0, 3000, 0, 0)

\* "no header": what a raising unpack leaves its caller with
NoHeader == Header(-1, -1, -1, -1, -1, -1, -1, -1, -1)

\* struct.pack raises struct.error when a value does not fit its field
FitsWire(h) ==
    /\ FitsField(h.version, 1) /\ FitsField(h.packet_type, 1)
    /\ FitsField(h.priority, 1) /\ FitsField(h.flags, 1)
    /\ FitsField(h.sequence, 2) /\ FitsField(h.timestamp, 4)
    /\ FitsField(h.deadline, 8) /\ FitsField(h.payload_length, 2)
    /\ FitsField(h.batch_id, 2)

\* DTPHeader.pack
pack_sequence_after_timestamp(h) ==
    IF ~FitsWire(h)
    THEN [ok |-> FALSE, error |-> "struct.error", bytes |-> <<>>]
    ELSE [ok |-> TRUE, error |-> "",
          bytes |-> to_bytes(DTP_MAGIC, 2) \o to_bytes(h.version, 1)
                    \o to_bytes(h.packet_type, 1) \o to_bytes(h.priority, 1)
                    \o to_bytes(h.flags, 1) \o to_bytes(h.timestamp, 4)
                    \o to_bytes(h.sequence, 2) \o to_bytes(h.deadline, 8)
                    \o to_bytes(h.payload_length, 2) \o to_bytes(h.batch_id, 2)]

pack(h) ==
    IF ~FitsWire(h)
    THEN [ok |-> FALSE, error |-> "struct.error", bytes |-> <<>>]
    ELSE [ok |-> TRUE, error |-> "",
          bytes |-> to_bytes(DTP_MAGIC, 2) \o to_bytes(h.version, 1)
                    \o to_bytes(h.packet_type, 1) \o to_bytes(h.priority, 1)
                    \o to_bytes(h.flags, 1) \o to_bytes(h.sequence, 2)
                    \o to_bytes(h.timestamp, 4) \o to_bytes(h.deadline, 8)
                    \o to_bytes(h.payload_length, 2) \o to_bytes(h.batch_id, 2)]

Raise(kind) == [ok |-> FALSE, error |-> kind, header |-> NoHeader]

\* DTPHeader.unpack: the length check, struct.unpack of data[:24], the magic
\* check, then the constructor call with PacketType(ptype) and
\* Priority(priority), each raising ValueError on a value outside the enum
unpack_enums_unchecked(d) ==
    IF Len(d) < DTP_HEADER_SIZE THEN Raise("ValueError")
    ELSE LET b == SubSeq(d, 1, DTP_HEADER_SIZE)
         IN IF from_bytes(SubSeq(b, 1, 2)) # DTP_MAGIC THEN Raise("ValueError")
            ELSE [ok |-> TRUE, error |-> "",
                  header |-> Header(b[3], b[4], b[5], b[6],
                                    from_bytes(SubSeq(b, 7, 8)),
                                    from_bytes(SubSeq(b, 9, 12)),
                                    from_bytes(SubSeq(b, 13, 20)),
                                    from_bytes(SubSeq(b, 21, 22)),
                                    from_bytes(SubSeq(b, 23, 24)))]

unpack(d) ==
    IF Len(d) < DTP_HEADER_SIZE THEN Raise("ValueError")
    ELSE LET b == SubSeq(d, 1, DTP_HEADER_SIZE)
             magic == from_bytes(SubSeq(b, 1, 2))
             version == b[3]
             ptype == b[4]
             priority == b[5]
             flags == b[6]
             seq == from_bytes(SubSeq(b, 7, 8))
             ts == from_bytes(SubSeq(b, 9, 12))
             deadline == from_bytes(SubSeq(b, 13, 20))
             plen == from_bytes(SubSeq(b, 21, 22))
             batch == from_bytes(SubSeq(b, 23, 24))
         IN IF magic # DTP_MAGIC THEN Raise("ValueError")
            ELSE IF ptype \notin PacketType THEN Raise("ValueError")
            ELSE IF priority \notin Priority THEN Raise("ValueError")
            ELSE [ok |-> TRUE, error |-> "",
                  header |-> Header(version, ptype, priority, flags, seq, ts,
                                    deadline, plen, batch)]

\* data[a:b] of Python, 0-based and clipped to the buffer
Slice(d, a, b) == SubSeq(d, a + 1, Min(b, Len(d)))

\* DTPPacket.deserialize: unpack, then payload = data[24:24 + payload_length]
deserialize(d) ==
    LET u == unpack(d)
    IN IF ~u.ok THEN [ok |-> FALSE, error |-> u.error, header |-> NoHeader,
                      payload |-> <<>>]
       ELSE [ok |-> TRUE, error |-> "", header |-> u.header,
             payload |-> Slice(d, DTP_HEADER_SIZE,
                               DTP_HEADER_SIZE + u.header.payload_length)]

---------------------------------------------------------------------------
(* DTPScheduler: state after construction, and its operations *)

\* Priority.get_default_deadline_ms, in clock steps of 500 ms
get_default_deadline(pri) ==
    CASE pri = CRITICAL -> 1
      [] pri = HIGH -> 3
      [] pri = MEDIUM -> 6
      [] OTHER -> 12

\* Packets offered to enqueue at clock value t.  Besides the priority class,
\* the packets a run offers vary in one respect: their deadline, their
\* DROPPABLE flag, or their timestamp (never stamped, or stamped two steps
\* ago and so already past a deadline of 1); "priority" traffic varies in
\* the class alone; "simulation" traffic is what DTPClient._simulation_loop
\* creates: the class deadline, DROPPABLE on LOW.
TrafficKinds == {"deadline", "flags", "timestamp"}
Packets(kind, t) ==
    CASE kind = "deadline" ->
           {Packet(pri, FLAG_NONE, t, dl) : pri \in {HIGH, MEDIUM}, dl \in {1, 2}}
      [] kind = "flags" ->
           {Packet(pri, fl, t, 2) : pri \in Priority, fl \in {FLAG_NONE, DROPPABLE}}
      [] kind = "timestamp" ->
           {Packet(pri, FLAG_NONE, ts, 1) :
               pri \in {HIGH, LOW}, ts \in {0} \cup {x \in {t - 2} : x > 0}}
      [] kind = "priority" ->
           {Packet(pri, FLAG_NONE, t, 2) : pri \in Priority}
      [] kind = "simulation" ->
           {Packet(pri, IF pri = LOW THEN DROPPABLE ELSE FLAG_NONE, t,
                   get_default_deadline(pri)) : pri \in {CRITICAL, LOW}}

\* ret: the call, its packet (argument or result), whether it returned a
\* packet / acceptance, and the sort key of the entry enqueued or dequeued
Ret(op, p, ok, key) == [op |-> op, pkt |-> p, ok |-> ok, key |-> key]

CodecResult(op, ok, err, h, b) ==
    [op |-> op, ok |-> ok, error |-> err, header |-> h, bytes |-> b]

NoResult == CodecResult("none", TRUE, "", NoHeader, <<>>)

\* DTPScheduler.__init__(queue_size)
SchedInitSized(kinds, sizes) ==
    /\ queue = <<>>
    /\ max_size \in sizes
    /\ stats = [enqueued |-> 0, dequeued |-> 0, dropped_full |-> 0,
                dropped_expired |-> 0]
    /\ enqueue_order = 0
    /\ congested = FALSE
    /\ send_rate = <<500, 1>>
    /\ rate_changes = 0
    /\ now = 1
    /\ ret = Ret("init", NoPacket, TRUE, NoEntry.sort_key)
    /\ traffic \in kinds

SchedInit(kinds) == SchedInitSized(kinds, 0..MaxQueueSize)

CodecIdle ==
    /\ data = <<>>
    /\ header = DefaultHeader
    /\ result = NoResult

\* DTPPacket.__init__: not yet received; no call made on the packet
None == -1
NoOnTime == [op |-> "none", value |-> TRUE]

PacketIdle ==
    /\ received_at = None
    /\ on_time = NoOnTime

\* TokenBucket.__init__(rate, burst, initial) at clock value t
TokenBucket(rate, burst, initial, t) ==
    [rate |-> rate, burst |-> burst,
     tokens |-> IF initial # None THEN Whole(initial) ELSE Whole(burst),
     last_update |-> t, total_consumed |-> 0, total_rejected |-> 0]

BucketRet(op, n, ok) == [op |-> op, tokens |-> n, ok |-> ok]

NoWaiter == [pc |-> "idle", start |-> 0, tokens |-> 0, max_wait_ms |-> 0,
             wake_at |-> 0]

\* a bucket constructed with (rate, burst, initial) at the current clock value
BucketInit(rate, burst, initial) ==
    /\ bucket = TokenBucket(rate, burst, initial, now)
    /\ bucket_ret = BucketRet("init", 0, TRUE)
    /\ bucket_hist = [initial |-> bucket.tokens, refilled |-> Whole(0),
                      reset |-> FALSE, calls |-> 0]
    /\ waiter = NoWaiter

\* no call is made on the bucket
BucketIdle == BucketInit(500, 1, None)

\* MetricsCollector.__init__, and the simulation's threads at their start
PriorityStats ==
    [total_packets |-> 0, received_packets |-> 0, dropped_packets |-> 0,
     on_time_packets |-> 0, late_packets |-> 0]

\* DTPServer.__init__, with the packet _handle_packet is working on (none),
\* the address it came from, and the ACKs sent on the server's socket
DTPServer ==
    [pc |-> "idle", header |-> NoHeader, received_at |-> None,
     addr |-> "", packets_processed |-> 0, packets_dropped |-> 0,
     acks |-> <<>>]

\* a datagram on its way: its bytes and the address it was sent from
Datagram(bytes, addr) == [data |-> bytes, addr |-> addr]

SimIdle ==
    /\ metrics = [p \in Priority |-> PriorityStats]
    /\ producer = [pc |-> "create", packet |-> NoPacket]
    /\ in_flight = <<>>
    /\ server = DTPServer

\* floor of a non-negative fraction
Floor(r) == r[1] \div r[2]

\* CongestionController.__init__ at clock value t; rates, the decrease
\* factor and the loss threshold are floats in the code, exact fractions here
CongestionController(initial_rate, min_rate, max_rate, additive_increase, multiplicative_decrease, loss_threshold, t) ==
    [initial_rate |-> initial_rate, min_rate |-> min_rate,
     max_rate |-> max_rate, additive_increase |-> additive_increase,
     multiplicative_decrease |-> multiplicative_decrease,
     loss_threshold |-> loss_threshold,
     current_rate |-> Whole(initial_rate),
     pacing_bucket |-> [rate |-> Whole(initial_rate),
                        burst |-> initial_rate \div 10],
     sent_count |-> 0, ack_count |-> 0, loss_count |-> 0,
     window_start |-> t, window_size_ms |-> 1000,
     congested |-> FALSE, last_decrease_time |-> 0,
     decrease_cooldown_ms |-> 500]

CCRet(op, count) == [op |-> op, count |-> count]

\* a controller constructed with the given rates and loss threshold, the
\* other parameters at their defaults, at the current clock value
CCInit(initial_rate, min_rate, max_rate, loss_threshold) ==
    /\ cc = CongestionController(initial_rate, min_rate, max_rate, 10,
                                 <<1, 2>>, loss_threshold, now)
    /\ cc_ret = CCRet("init", 0)
    /\ cc_hist = [steps |-> 0, acks |-> 0, rate0 |-> cc.current_rate,
                  steady |-> TRUE, decreased_by |-> "none"]

\* no call is made on the controller: CongestionController()
CCIdle == CCInit(500, 50, 5000, <<1, 50>>)

\* TokenBucketConfig(rate, burst, initial); __post_init__ makes a missing
\* initial count the burst
TokenBucketConfig(rate, burst, initial) ==
    [rate |-> rate, burst |-> burst,
     initial |-> IF initial = None THEN burst ELSE initial]

\* AdmissionController.DEFAULT_LIMITS
DEFAULT_LIMITS ==
    [p \in Priority |->
        CASE p = CRITICAL -> TokenBucketConfig(50, 20, None)
          [] p = HIGH -> TokenBucketConfig(200, 50, None)
          [] p = MEDIUM -> TokenBucketConfig(500, 100, None)
          [] p = LOW -> TokenBucketConfig(1000, 200, None)]

\* AdmissionController.__init__(limits, enable_critical_limit) at clock
\* value t; limits maps some classes to their TokenBucketConfig, and an
\* empty (or missing) map means the defaults
AdmissionController(limits, enable_critical_limit, t) ==
    LET l == IF DOMAIN limits = {} THEN DEFAULT_LIMITS ELSE limits
    IN [enable_critical_limit |-> enable_critical_limit,
        buckets |-> [p \in DOMAIN l |->
                        TokenBucket(l[p].rate, l[p].burst, l[p].initial, t)],
        stats |-> [p \in Priority |-> [admitted |-> 0, rejected |-> 0]]]

AdmRet(op, pri, ok, calls) ==
    [op |-> op, priority |-> pri, ok |-> ok, calls |-> calls]

\* an admission controller constructed at the current clock value
AdmInit(limits, enable_critical_limit) ==
    /\ admission = AdmissionController(limits, enable_critical_limit, now)
    /\ adm_ret = AdmRet("init", CRITICAL, TRUE, 0)

\* no call is made on the admission controller: AdmissionController()
AdmIdle == AdmInit(<<>>, TRUE)

\* the header of DTPPacket.create_data(payload, priority, sequence,
\* deadline_ms) at clock value t, its flags then set by the caller to fl
\* (client.py _simulation_loop); the payload plays no part and is empty
create_data(pri, seq, dl, fl, t) ==
    Header(DTP_VERSION, DATA, pri, fl, seq, t, dl, 0, 0)

\* SimpleScheduler.__init__(queue_size)
SimpleScheduler(queue_size) ==
    [queue |-> <<>>, max_size |-> queue_size, send_rate |-> <<500, 1>>,
     congested |-> FALSE,
     stats |-> [enqueued |-> 0, dequeued |-> 0, dropped |-> 0]]

SimpleRet(op, p, ok) == [op |-> op, pkt |-> p, ok |-> ok]

\* a client in mode m, its SimpleScheduler constructed with queue_size
SimpleInit(m, queue_size) ==
    /\ mode = m
    /\ simple = SimpleScheduler(queue_size)
    /\ simple_ret = SimpleRet("init", NoHeader, TRUE)
    /\ simple_hist = [offered |-> 0, rate_changes |-> 0, accepted |-> <<>>,
                      returned |-> <<>>]

\* DTPClient(): the default mode is DTP, and the FIFO scheduler is not used
SimpleIdle == SimpleInit("dtp", 1000)

\* DTPScheduler.__init__(queue_size, batch_size, batch_timeout_ms): the
\* batching part of the scheduler
BatchState(batch_size, batch_timeout_ms) ==
    [size |-> batch_size, timeout_ms |-> batch_timeout_ms, current |-> <<>>,
     start_time |-> None, id |-> 0, batches_sent |-> 0]

\* the result of add_to_batch / flush_all: a list of packets, or None
BatchRet(op, returned, none) == [op |-> op, batch |-> returned, none |-> none]

BatchInit(batch_size, batch_timeout_ms) ==
    /\ batching = BatchState(batch_size, batch_timeout_ms)
    /\ batch_ret = BatchRet("init", <<>>, TRUE)
    /\ batch_hist = [calls |-> 0, ids |-> <<>>]

\* DTPScheduler(): batches of 10, flushed after 50 ms; no batching call made
BatchIdle == BatchInit(10, 50)

\* sender_loop gives up after more than 100 empty polls in a row once
\* generation has ended (client.py sender_loop)
EmptyStreakLimit == 100
\* sequence numbers are 16-bit: _next_sequence counts modulo 65536
SequenceModulus == 65536
\* packets in the generation schedule of a simulation run
MaxScheduled == 1

\* DTPClient.__init__ with a traffic profile of total packets: no thread is
\* started and no socket is open
DTPClient(total) ==
    [running |-> FALSE, paused |-> FALSE, socket |-> "none",
     stopped |-> FALSE, recv |-> "none", sim |-> "none", sender |-> "none",
     sender_running |-> FALSE, empty_streak |-> 0, packet_index |-> 0,
     seq |-> 0, packet |-> NoHeader, total |-> total, timers |-> 0,
     on_congestion |-> <<>>]

\* DTPServer.__init__ / ClockSyncServer.__init__
Responder == [running |-> FALSE, stopped |-> FALSE, socket |-> "none",
              thread |-> "none"]

LifeInit(s, total) ==
    /\ subsystem = s
    /\ client = DTPClient(total)
    /\ responses = <<>>
    /\ responder = Responder

\* nothing is started
LifeIdle == LifeInit("client", 0)

\* start() calls per run of the engine
MaxEngineRuns == 2

\* SimulationEngine.__init__: state IDLE, no client, no server, no results;
\* no stop() call in progress and no monitor thread started.  `sending` is
\* what self._client.is_sending returns; `stop_returned` is set from the
\* return of stop() to the next start().
SimulationEngine ==
    [state |-> "idle", running |-> FALSE, client |-> "none",
     server |-> "none", sending |-> FALSE, mode |-> "dtp",
     results |-> [k \in {"dtp", "udp_raw"} |-> 0],
     runs |-> 0, stop |-> "idle", stop_returned |-> FALSE,
     monitor |-> [m \in 1..MaxEngineRuns |-> "none"]]

EngineIdle == engine = SimulationEngine

\* clock_sync.py packet types
SYNC_REQ == 1
SYNC_RESP == 2
SYNC_ACK == 3

\* a clock-sync datagram (format '>B q q q')
SyncPacket(ptype, t1, t2, t3) ==
    [ptype |-> ptype, t1 |-> t1, t2 |-> t2, t3 |-> t3]

\* ClockSyncResult(offset_ms, rtt_ms, accuracy_ms, samples), or None
SyncResult(offset_ms, rtt_ms, accuracy_ms, samples) ==
    [none |-> FALSE, offset_ms |-> offset_ms, rtt_ms |-> rtt_ms,
     accuracy_ms |-> accuracy_ms, samples |-> samples]

NoSyncResult ==
    [none |-> TRUE, offset_ms |-> Whole(0), rtt_ms |-> Whole(0),
     accuracy_ms |-> Whole(0), samples |-> 0]

NoSync == [pc |-> "idle", num_samples |-> 0, i |-> 0, t1 |-> 0,
           offsets |-> <<>>, rtts |-> <<>>]

\* a server whose clock is theta ms ahead of the client's; no sync made,
\* the process-wide offset at its initial 0.0
SyncInit(theta) ==
    /\ sync = NoSync
    /\ sync_net = [to_server |-> <<>>, to_client |-> <<>>]
    /\ sync_server = [theta |-> theta, requests_handled |-> 0]
    /\ clock_offset = Whole(0)
    /\ sync_ret = NoSyncResult
    /\ sync_hist = [calls |-> 0, rounds |-> 0, junk |-> 0,
                    before |-> Whole(0), samples |-> <<>>]

SyncIdle == SyncInit(0)

\* the threads that call set_congested on one scheduler: in the client, the
\* receive thread (_handle_response) and a Timer thread (_clear_congestion)
SetterThreads == {1, 2}

NoFrame == [pc |-> "idle", congested |-> FALSE, send_rate |-> <<0, 1>>]

\* no thread is inside set_congested
RaceIdle ==
    /\ setter = [t \in SetterThreads |-> NoFrame]
    /\ set_calls = [true |-> 0, false |-> 0]

Init ==
    /\ SchedInit(TrafficKinds)
    /\ CodecIdle /\ PacketIdle /\ BucketIdle /\ SimIdle /\ EngineIdle
    /\ LifeIdle /\ SyncIdle
    /\ BatchIdle /\ RaceIdle /\ SimpleIdle /\ AdmIdle /\ CCIdle

\* enqueue on a full queue: the incoming packet itself is dropped when it is
\* LOW and carries DROPPABLE
rejects_when_full_wrong_bit(p) == p.priority = LOW /\ HasFlag(p.flags, RELIABLE)

rejects_when_full(p) == p.priority = LOW /\ HasFlag(p.flags, DROPPABLE)

\* DTPScheduler.enqueue(packet)
enqueue_call(p) ==
    /\ enqueue_order < MaxEnqueueOrder
    /\ stats.dropped_full < MaxDroppedFull
    /\ IF Len(queue) >= max_size /\ rejects_when_full(p)
       THEN /\ stats' = [stats EXCEPT !.dropped_full = @ + 1]
            /\ ret' = Ret("enqueue", p, FALSE, NoEntry.sort_key)
            /\ UNCHANGED <<queue, enqueue_order>>
       ELSE LET d == IF Len(queue) >= max_size
                     THEN drop_lowest_priority(queue)
                     ELSE [queue |-> queue, dropped |-> 0]
            IN /\ queue' = heappush(d.queue, QueueEntry(p, now, enqueue_order))
               /\ enqueue_order' = enqueue_order + 1
               /\ stats' = [stats EXCEPT !.dropped_full = @ + d.dropped,
                                         !.enqueued = @ + 1]
               /\ ret' = Ret("enqueue", p, TRUE, sort_key(p, now, enqueue_order))
    /\ UNCHANGED <<max_size, congested, send_rate, rate_changes, now, traffic>>

Enqueue(p) == enqueue_call(p) /\ UNCHANGED notSchedVars

\* DTPScheduler.dequeue()
dequeue_call ==
    /\ LET r == dequeue_loop(queue, now, 0)
       IN /\ queue' = r.queue
          /\ stats' = [stats EXCEPT
                          !.dropped_expired = @ + r.expired,
                          !.dequeued = @ + (IF r.found THEN 1 ELSE 0)]
          /\ ret' = Ret("dequeue", r.entry.packet, r.found, r.entry.sort_key)
    /\ UNCHANGED <<max_size, enqueue_order, congested, send_rate, rate_changes, now,
                   traffic>>

Dequeue == dequeue_call /\ UNCHANGED notSchedVars

\* DTPScheduler.clear()
clear_call ==
    /\ queue' = <<>>
    /\ batching' = [batching EXCEPT !.current = <<>>, !.start_time = None]
    /\ ret' = Ret("clear", NoPacket, TRUE, NoEntry.sort_key)
    /\ UNCHANGED <<max_size, stats, enqueue_order, congested, send_rate,
                   rate_changes, now, traffic>>
    /\ UNCHANGED <<batch_ret, batch_hist>>

Clear == clear_call /\ UNCHANGED notSchedulerVars

\* DTPScheduler.set_congested(c), with no other set_congested in progress
set_congested_call(c) ==
    /\ rate_changes < MaxRateChanges
    /\ rate_changes' = rate_changes + 1
    /\ congested' = c
    /\ send_rate' = IF c THEN FracMax(<<50, 1>>, FracMul(send_rate, 1, 2))
                         ELSE FracMin(<<1000, 1>>, FracMul(send_rate, 6, 5))
    /\ ret' = Ret("set_congested", NoPacket, TRUE, NoEntry.sort_key)
    /\ UNCHANGED <<queue, max_size, stats, enqueue_order, now, traffic>>

SetCongested(c) == set_congested_call(c) /\ UNCHANGED notSchedVars

\* the monotonic clock advances; the last call's result is no longer current
Tick ==
    /\ now < MaxNow
    /\ now' = now + 1
    /\ ret' = Ret("none", NoPacket, TRUE, NoEntry.sort_key)
    /\ UNCHANGED <<queue, max_size, stats, enqueue_order, congested, send_rate,
                   rate_changes, traffic>>
    /\ UNCHANGED notSchedVars

EnqueueAny == \E p \in Packets(traffic, now) : Enqueue(p)
SetCongestedAny == \E c \in BOOLEAN : SetCongested(c)

\* the queue under mixed traffic
Next == EnqueueAny \/ Dequeue \/ Clear \/ Tick

Spec == Init /\ [][Next]_vars

\* the queue with congestion signals arriving (client.py _handle_response,
\* _clear_congestion)
InitCongestion ==
    /\ SchedInit({"priority"})
    /\ CodecIdle /\ PacketIdle /\ BucketIdle /\ SimIdle /\ EngineIdle
    /\ LifeIdle /\ SyncIdle
    /\ BatchIdle /\ RaceIdle /\ SimpleIdle /\ AdmIdle /\ CCIdle

NextCongestion == EnqueueAny \/ Dequeue \/ SetCongestedAny \/ Clear \/ Tick

SpecCongestion == InitCongestion /\ [][NextCongestion]_vars

---------------------------------------------------------------------------
(* the codec on its own: headers and byte buffers handed to pack / unpack *)

\* headers handed to pack: every field at small and large values, the
\* sequence also one past its 16-bit field
HeaderInputs ==
    {Header(ver, ty, pri, fl, seq, ts, dl, plen, batch) :
        ver \in {DTP_VERSION, 2}, ty \in {DATA, KEEPALIVE},
        pri \in {CRITICAL, HIGH, LOW}, fl \in {FLAG_NONE, RELIABLE + BATCHED},
        seq \in {0, 1234, 65535, 65536}, ts \in {0, 1000000, 2147483647},
        dl \in {100, 2147483647}, plen \in {0, 12}, batch \in {0, 5}}

\* byte buffers handed to unpack: 24 header bytes with a right or a
\* byte-swapped magic, enum bytes inside and outside their enumerations,
\* cut short to 23 or 0 bytes, or followed by a payload byte
WireBodies ==
    {m \o <<ver, ty, pri, fl>> \o seq \o ts \o dl \o <<0, plen, 0, 5>> :
        m \in {<<222, 173>>, <<173, 222>>}, ver \in {DTP_VERSION, 2},
        ty \in {DATA, KEEPALIVE, 5}, pri \in {CRITICAL, LOW, 4},
        fl \in {FLAG_NONE, 5, 255}, seq \in {<<4, 210>>, <<255, 255>>},
        ts \in {<<0, 15, 66, 64>>, <<127, 255, 255, 255>>},
        dl \in {<<0, 0, 0, 0, 0, 0, 0, 100>>, <<0, 0, 0, 0, 127, 255, 255, 255>>},
        plen \in {0, 1}}

WireInputs ==
    {<<>>} \cup WireBodies
    \cup {SubSeq(b, 1, DTP_HEADER_SIZE - 1) : b \in WireBodies}
    \cup {b \o <<7>> : b \in WireBodies}

InitCodec ==
    /\ SchedInit({"priority"})
    /\ max_size = 0
    /\ result = NoResult
    /\ PacketIdle
    /\ BucketIdle
    /\ SimIdle /\ EngineIdle /\ LifeIdle /\ SyncIdle /\ BatchIdle
    /\ RaceIdle /\ SimpleIdle /\ AdmIdle
    /\ CCIdle
    /\ \/ data \in WireInputs /\ header = DefaultHeader
       \/ data = <<>> /\ header \in HeaderInputs

\* header.pack()
Pack ==
    /\ LET p == pack(header)
       IN result' = CodecResult("pack", p.ok, p.error, header, p.bytes)
    /\ UNCHANGED <<data, header>>
    /\ UNCHANGED notCodecVars

\* DTPHeader.unpack(data)
Unpack ==
    /\ LET u == unpack(data)
       IN result' = CodecResult("unpack", u.ok, u.error, u.header, data)
    /\ UNCHANGED <<data, header>>
    /\ UNCHANGED notCodecVars

\* pack() of the header unpack has just returned
PackUnpacked ==
    /\ result.op = "unpack" /\ result.ok
    /\ LET p == pack(result.header)
       IN result' = CodecResult("pack_unpacked", p.ok, p.error, result.header,
                                p.bytes)
    /\ UNCHANGED <<data, header>>
    /\ UNCHANGED notCodecVars

\* unpack() of the bytes pack has just returned
UnpackPacked ==
    /\ result.op = "pack" /\ result.ok
    /\ LET u == unpack(result.bytes)
       IN result' = CodecResult("unpack_packed", u.ok, u.error, u.header,
                                result.bytes)
    /\ UNCHANGED <<data, header>>
    /\ UNCHANGED notCodecVars

\* DTPPacket.deserialize(data); the result's bytes are the packet's payload
Deserialize ==
    /\ LET p == deserialize(data)
       IN result' = CodecResult("deserialize", p.ok, p.error, p.header,
                                p.payload)
    /\ UNCHANGED <<data, header>>
    /\ UNCHANGED notCodecVars

NextCodec == Pack \/ Unpack \/ PackUnpacked \/ UnpackPacked \/ Deserialize

SpecCodec == InitCodec /\ [][NextCodec]_vars

---------------------------------------------------------------------------
(* a received packet: DTPPacket.mark_received, latency_ms, is_on_time *)

\* DTPPacket.latency_ms of a packet with header h received at r: unknown
\* (None) before mark_received and for an unstamped header
latency_ms(h, r) ==
    IF r = None \/ h.timestamp = 0
    THEN [known |-> FALSE, ms |-> 0]
    ELSE [known |-> TRUE, ms |-> r - h.timestamp]

\* DTPPacket.is_on_time
is_on_time_strictly_before(h, r) ==
    LET lat == latency_ms(h, r)
    IN IF ~lat.known THEN TRUE ELSE lat.ms < h.deadline

is_on_time(h, r) ==
    LET lat == latency_ms(h, r)
    IN IF ~lat.known THEN TRUE ELSE lat.ms <= h.deadline

\* headers of packets on the receiving side: unstamped, or stamped by the
\* sender's clock up to one step ahead of the receiver's; deadlines from
\* none to two steps
PacketHeaders ==
    {[DefaultHeader EXCEPT !.timestamp = ts, !.deadline = dl] :
        ts \in 0..(MaxNow + 1), dl \in 0..2}

InitPacket ==
    /\ SchedInit({"priority"})
    /\ max_size = 0
    /\ data = <<>>
    /\ result = NoResult
    /\ header \in PacketHeaders
    /\ PacketIdle
    /\ BucketIdle
    /\ SimIdle /\ EngineIdle /\ LifeIdle /\ SyncIdle /\ BatchIdle
    /\ RaceIdle /\ SimpleIdle /\ AdmIdle
    /\ CCIdle

\* packet.mark_received(); an earlier is_on_time answer is no longer current
MarkReceived ==
    /\ received_at' = now
    /\ on_time' = NoOnTime
    /\ UNCHANGED notPacketVars

\* packet.is_on_time()
IsOnTime ==
    /\ on_time' = [op |-> "is_on_time", value |-> is_on_time(header, received_at)]
    /\ UNCHANGED received_at
    /\ UNCHANGED notPacketVars

NextPacket == MarkReceived \/ IsOnTime \/ Tick

SpecPacket == InitPacket /\ [][NextPacket]_vars

---------------------------------------------------------------------------
(* rate_control.py: TokenBucket.  Token counts are floats in the code and    *)
(* exact fractions here; the clock counts milliseconds.                      *)

\* TokenBucket._refill at clock value t
refill(b, t) ==
    LET elapsed_ms == t - b.last_update
        new_tokens == Frac(elapsed_ms * b.rate, 1000)
    IN IF elapsed_ms > 0
       THEN [b EXCEPT !.tokens = FracMin(Whole(b.burst), FracAdd(@, new_tokens)),
                      !.last_update = t]
       ELSE b

\* TokenBucket.consume(tokens) at clock value t (the body under the lock):
\* the bucket left and the value returned
consume_without_check(b, t, n) ==
    LET r == refill(b, t)
    IN [bucket |-> [r EXCEPT !.tokens = FracSub(@, Whole(n)),
                             !.total_consumed = @ + n],
        ok |-> TRUE]

consume(b, t, n) ==
    LET r == refill(b, t)
    IN IF FracLeq(Whole(n), r.tokens)
       THEN [bucket |-> [r EXCEPT !.tokens = FracSub(@, Whole(n)),
                                  !.total_consumed = @ + n],
             ok |-> TRUE]
       ELSE [bucket |-> [r EXCEPT !.total_rejected = @ + n], ok |-> FALSE]

\* the history after a call that refilled bucket b at clock value t
Refilled(h, b, t) ==
    [h EXCEPT !.refilled = FracAdd(@, FracSub(refill(b, t).tokens, b.tokens))]

Called(h) == [h EXCEPT !.calls = @ + 1]

\* bucket.consume(n)
Consume(n) ==
    /\ bucket_hist.calls < MaxBucketCalls
    /\ LET c == consume(bucket, now, n)
       IN /\ bucket' = c.bucket
          /\ bucket_ret' = BucketRet("consume", n, c.ok)
    /\ bucket_hist' = Called(Refilled(bucket_hist, bucket, now))
    /\ UNCHANGED waiter
    /\ UNCHANGED notBucketVars

\* bucket.available_tokens
AvailableTokens ==
    /\ bucket_hist.calls < MaxBucketCalls
    /\ bucket' = refill(bucket, now)
    /\ bucket_ret' = BucketRet("available_tokens", 0, TRUE)
    /\ bucket_hist' = Called(Refilled(bucket_hist, bucket, now))
    /\ UNCHANGED waiter
    /\ UNCHANGED notBucketVars

\* bucket.reset()
Reset ==
    /\ bucket_hist.calls < MaxBucketCalls
    /\ bucket' = [bucket EXCEPT !.tokens = Whole(bucket.burst),
                                !.last_update = now]
    /\ bucket_ret' = BucketRet("reset", 0, TRUE)
    /\ bucket_hist' = Called([bucket_hist EXCEPT !.reset = TRUE])
    /\ UNCHANGED waiter
    /\ UNCHANGED notBucketVars

\* bucket.try_consume_or_wait(n, max_wait_ms) is entered: start = now_ms()
TryConsumeOrWait(n, max_wait_ms) ==
    /\ bucket_hist.calls < MaxBucketCalls
    /\ waiter.pc = "idle"
    /\ waiter' = [pc |-> "consume", start |-> now, tokens |-> n,
                  max_wait_ms |-> max_wait_ms, wake_at |-> now]
    /\ bucket_ret' = BucketRet("none", n, TRUE)
    /\ bucket_hist' = Called(bucket_hist)
    /\ UNCHANGED bucket
    /\ UNCHANGED notBucketVars

\* one round of its loop: consume; on failure return false once max_wait_ms
\* have elapsed, else sleep min(10, max_wait_ms - elapsed) ms
TryConsumeRound ==
    /\ waiter.pc = "consume"
    /\ LET c == consume(bucket, now, waiter.tokens)
           elapsed == now - waiter.start
       IN /\ bucket' = c.bucket
          /\ IF c.ok
             THEN /\ waiter' = NoWaiter
                  /\ bucket_ret' = BucketRet("try_consume_or_wait",
                                             waiter.tokens, TRUE)
             ELSE IF elapsed >= waiter.max_wait_ms
             THEN /\ waiter' = NoWaiter
                  /\ bucket_ret' = BucketRet("try_consume_or_wait",
                                             waiter.tokens, FALSE)
             ELSE /\ waiter' = [waiter EXCEPT
                                   !.pc = "sleep",
                                   !.wake_at = now + Min(10, waiter.max_wait_ms
                                                             - elapsed)]
                  /\ bucket_ret' = BucketRet("none", waiter.tokens, FALSE)
    /\ bucket_hist' = Refilled(bucket_hist, bucket, now)
    /\ UNCHANGED notBucketVars

\* time.sleep(wait_time) returns, no earlier than asked
TryWake ==
    /\ waiter.pc = "sleep"
    /\ now >= waiter.wake_at
    /\ waiter' = [waiter EXCEPT !.pc = "consume"]
    /\ bucket_ret' = BucketRet("none", waiter.tokens, FALSE)
    /\ UNCHANGED <<bucket, bucket_hist>>
    /\ UNCHANGED notBucketVars

\* buckets of 500 and 1000 tokens per second (half a token and one token per
\* millisecond), constructed without an initial count or with one from
\* empty to one above the burst
InitBucket ==
    /\ SchedInit({"priority"})
    /\ max_size = 0
    /\ CodecIdle
    /\ PacketIdle
    /\ SimIdle /\ EngineIdle /\ LifeIdle /\ SyncIdle /\ BatchIdle
    /\ RaceIdle /\ SimpleIdle /\ AdmIdle
    /\ CCIdle
    /\ \E rate \in {500, 1000}, burst \in 1..MaxBurst :
          \E initial \in {None} \cup 0..(burst + 1) :
              BucketInit(rate, burst, initial)

ConsumeAny == \E n \in {1, 2} : Consume(n)
TryConsumeOrWaitAny ==
    \E n \in {1, 2}, max_wait_ms \in {0, 1} : TryConsumeOrWait(n, max_wait_ms)

NextBucket ==
    \/ ConsumeAny \/ AvailableTokens \/ Reset
    \/ TryConsumeOrWaitAny \/ TryConsumeRound \/ TryWake \/ Tick

SpecBucket == InitBucket /\ [][NextBucket]_vars

---------------------------------------------------------------------------
(* The simulation: DTPClient._simulation_loop (the producing thread and its *)
(* sender_loop thread), the datagrams in flight, and DTPServer's receiving   *)
(* thread, all recording into one MetricsCollector (simulation.py start).   *)
(* Each MetricsCollector method runs under the collector's lock.            *)

\* DTPPacket.serialize of a packet of the simulation; its sequence number
\* and payload play no part below and are left at 0 and empty
serialize(p) ==
    pack(Header(DTP_VERSION, DATA, p.priority, p.flags, 0, p.timestamp,
                p.deadline, 0, 0))

\* MetricsCollector.record_sent
record_sent(m, pri) == [m EXCEPT ![pri].total_packets = @ + 1]

\* MetricsCollector.record_dropped
record_dropped(m, pri) == [m EXCEPT ![pri].dropped_packets = @ + 1]

\* MetricsCollector.record_received of a packet with header h marked
\* received at r
record_received(m, h, r) ==
    IF is_on_time(h, r)
    THEN [m EXCEPT ![h.priority].received_packets = @ + 1,
                   ![h.priority].on_time_packets = @ + 1]
    ELSE [m EXCEPT ![h.priority].received_packets = @ + 1,
                   ![h.priority].late_packets = @ + 1]

\* _simulation_loop: create_data and self._scheduler.enqueue(packet)
ProduceEnqueue ==
    /\ producer.pc = "create"
    /\ \E p \in Packets(traffic, now) :
          /\ enqueue_call(p)
          /\ producer' = [pc |-> "record_sent", packet |-> p]
    /\ UNCHANGED <<metrics, in_flight, server>>
    /\ UNCHANGED notSimVars

\* _simulation_loop: self.metrics.record_sent(packet)
ProduceRecordSent ==
    /\ producer.pc = "record_sent"
    /\ metrics' = record_sent(metrics, producer.packet.priority)
    /\ producer' = [pc |-> "create", packet |-> NoPacket]
    /\ UNCHANGED <<in_flight, server>>
    /\ UNCHANGED <<schedVars, notSimVars>>

\* sender_loop: packet = self._scheduler.dequeue(); self._send_packet(packet)
\* (an exception in serialize or sendto is swallowed)
SenderLoop ==
    /\ dequeue_call
    /\ LET r == dequeue_loop(queue, now, 0)
           sent == serialize(r.entry.packet)
       IN in_flight' = IF r.found /\ sent.ok
                       THEN Append(in_flight, Datagram(sent.bytes, "client"))
                       ELSE in_flight
    /\ UNCHANGED <<metrics, producer, server>>
    /\ UNCHANGED notSimVars

\* the header of DTPPacket.create_ack(sequence, priority) at clock value t
create_ack_without_sequence(seq, pri, t) ==
    Header(DTP_VERSION, ACK, pri, FLAG_NONE, 0, t, 3000, 0, 0)

create_ack(seq, pri, t) ==
    Header(DTP_VERSION, ACK, pri, FLAG_NONE, seq, t, 3000, 0, 0)

\* DTPServer._handle_packet up to the processing delay: deserialize,
\* mark_received, and _packets_dropped += 1 and record_dropped for a packet
\* expired on arrival (an exception in deserialize is swallowed)
HandlePacket(i) ==
    /\ server.pc = "idle"
    /\ LET d == deserialize(in_flight[i].data)
       IN IF ~d.ok
          THEN UNCHANGED <<metrics, server>>
          ELSE IF is_expired(d.header, now)
          THEN /\ metrics' = record_dropped(metrics, d.header.priority)
               /\ server' = [server EXCEPT !.packets_dropped = @ + 1]
          ELSE /\ server' = [server EXCEPT !.pc = "processing",
                                           !.header = d.header,
                                           !.received_at = now,
                                           !.addr = in_flight[i].addr]
               /\ UNCHANGED metrics
    /\ in_flight' = DeleteAt(in_flight, i - 1)
    /\ UNCHANGED producer
    /\ UNCHANGED <<schedVars, notSimVars>>

\* DTPServer._handle_packet after _simulate_processing has slept:
\* self.metrics.record_received(packet), _packets_processed += 1, and
\* _send_ack to the packet's source when its flags carry RELIABLE (an
\* exception in serialize is swallowed)
HandleProcessed ==
    /\ server.pc = "processing"
    /\ metrics' = record_received(metrics, server.header, server.received_at)
    /\ LET ack == pack(create_ack(server.header.sequence,
                                  server.header.priority, now))
       IN server' = [server EXCEPT
                        !.pc = "idle", !.header = NoHeader,
                        !.received_at = None, !.addr = "",
                        !.packets_processed = @ + 1,
                        !.acks = IF HasFlag(server.header.flags, RELIABLE)
                                    /\ ack.ok
                                 THEN Append(@, Datagram(ack.bytes,
                                                         server.addr))
                                 ELSE @]
    /\ UNCHANGED <<producer, in_flight>>
    /\ UNCHANGED <<schedVars, notSimVars>>

HandleAnyPacket == \E i \in DOMAIN in_flight : HandlePacket(i)

\* DTPClient() constructs DTPScheduler() with its default queue_size
InitSim ==
    /\ SchedInitSized({"simulation"}, {1000})
    /\ CodecIdle /\ PacketIdle /\ BucketIdle /\ SimIdle /\ EngineIdle
    /\ LifeIdle /\ SyncIdle
    /\ BatchIdle /\ RaceIdle /\ SimpleIdle /\ AdmIdle /\ CCIdle

NextSim ==
    \/ ProduceEnqueue \/ ProduceRecordSent \/ SenderLoop
    \/ HandleAnyPacket \/ HandleProcessed \/ Tick

SpecSim == InitSim /\ [][NextSim]_vars

\* the receiver on its own.  Headers of datagrams handed to it: of two
\* classes and two types, with and without RELIABLE, unstamped or stamped
\* at clock value 1, with a deadline of one step
ServerHeaders ==
    {Header(DTP_VERSION, ty, pri, fl, seq, ts, 1, 0, 0) :
        ty \in {DATA, KEEPALIVE}, pri \in {CRITICAL, LOW},
        fl \in {FLAG_NONE, RELIABLE, RELIABLE + DROPPABLE},
        seq \in {7, 65535}, ts \in {0, 1}}

\* their bytes, and bytes that are cut short, carry a wrong magic, or carry
\* a priority byte outside the enumeration
ServerInputs ==
    LET good == {pack(h).bytes : h \in ServerHeaders}
        one == pack(Header(DTP_VERSION, DATA, HIGH, RELIABLE, 9, 1, 1, 0,
                           0)).bytes
    IN good \cup {SubSeq(one, 1, DTP_HEADER_SIZE - 1),
                  [one EXCEPT ![1] = 173, ![2] = 222],
                  [one EXCEPT ![5] = 4], [one EXCEPT ![4] = 9]}

\* one datagram from either of two sources is on its way to the server
InitServer ==
    /\ SchedInitSized({"simulation"}, {1000})
    /\ CodecIdle /\ PacketIdle /\ BucketIdle /\ SyncIdle /\ LifeIdle
    /\ BatchIdle /\ RaceIdle /\ SimpleIdle /\ AdmIdle /\ CCIdle
    /\ EngineIdle
    /\ metrics = [p \in Priority |-> PriorityStats]
    /\ producer = [pc |-> "create", packet |-> NoPacket]
    /\ server = DTPServer
    /\ \E d \in ServerInputs, a \in {"client", "other"} :
          in_flight = <<Datagram(d, a)>>

NextServer == HandleAnyPacket \/ HandleProcessed \/ Tick

SpecServer == InitServer /\ [][NextServer]_vars

---------------------------------------------------------------------------
(* rate_control.py: CongestionController.  Every method below runs under    *)
(* the controller's lock; the clock counts milliseconds.                     *)

\* CongestionController._update_bucket: a new pacing bucket at the current
\* rate, burst = max(10, int(rate / 10))
update_bucket(c) ==
    [c EXCEPT !.pacing_bucket =
        [rate |-> c.current_rate,
         burst |-> Max(10, Floor(FracMul(c.current_rate, 1, 10)))]]

\* CongestionController._increase_rate
increase_rate_unclamped(c) ==
    IF ~c.congested
    THEN update_bucket([c EXCEPT !.current_rate =
                           FracAdd(@, Whole(c.additive_increase))])
    ELSE c

increase_rate(c) ==
    IF ~c.congested
    THEN update_bucket([c EXCEPT !.current_rate =
                           FracMin(Whole(c.max_rate),
                                   FracAdd(@, Whole(c.additive_increase)))])
    ELSE c

\* CongestionController.on_packet_sent
on_packet_sent(c) == [c EXCEPT !.sent_count = @ + 1]

\* CongestionController.on_ack_received(count)
on_ack_received(c, count) ==
    LET a == [c EXCEPT !.ack_count = @ + count]
    IN IF a.ack_count >= 10
       THEN [increase_rate(a) EXCEPT !.ack_count = 0]
       ELSE a

\* r * (1 - multiplicative_decrease * k), for k = n / d
Decreased(c, n, d) ==
    LET factor == FracSub(Whole(1), FracMul(c.multiplicative_decrease, n, d))
    IN FracMul(c.current_rate, factor[1], factor[2])

\* CongestionController._check_and_decrease at clock value t
check_and_decrease_without_cooldown(c, t) ==
    LET total == c.sent_count
        loss_rate == Frac(c.loss_count, total)
        judged ==
            IF total > 0
            THEN IF FracLess(c.loss_threshold, loss_rate)
                 THEN update_bucket(
                          [c EXCEPT !.current_rate =
                                       FracMax(Whole(c.min_rate),
                                               Decreased(c, 1, 1)),
                                    !.congested = TRUE,
                                    !.last_decrease_time = t])
                 ELSE [c EXCEPT !.congested = FALSE]
            ELSE c
    IN IF t - c.window_start >= c.window_size_ms
       THEN [judged EXCEPT !.sent_count = 0, !.ack_count = 0,
                           !.loss_count = 0, !.window_start = t]
       ELSE c

check_and_decrease(c, t) ==
    LET total == c.sent_count
        loss_rate == Frac(c.loss_count, total)
        judged ==
            IF total > 0
            THEN IF FracLess(c.loss_threshold, loss_rate)
                 THEN IF t - c.last_decrease_time > c.decrease_cooldown_ms
                      THEN update_bucket(
                               [c EXCEPT !.current_rate =
                                            FracMax(Whole(c.min_rate),
                                                    Decreased(c, 1, 1)),
                                         !.congested = TRUE,
                                         !.last_decrease_time = t])
                      ELSE c
                 ELSE [c EXCEPT !.congested = FALSE]
            ELSE c
    IN IF t - c.window_start >= c.window_size_ms
       THEN [judged EXCEPT !.sent_count = 0, !.ack_count = 0,
                           !.loss_count = 0, !.window_start = t]
       ELSE c

\* CongestionController.on_loss_detected(count) at clock value t
on_loss_detected(c, count, t) ==
    check_and_decrease([c EXCEPT !.loss_count = @ + count], t)

\* CongestionController.on_timeout at clock value t
on_timeout_without_cooldown(c, t) ==
    [update_bucket([c EXCEPT !.current_rate =
                                FracMax(Whole(c.min_rate),
                                        Decreased(c, 3, 2))])
       EXCEPT !.congested = TRUE, !.last_decrease_time = t]

on_timeout(c, t) ==
    IF t - c.last_decrease_time > c.decrease_cooldown_ms
    THEN [update_bucket([c EXCEPT !.current_rate =
                                     FracMax(Whole(c.min_rate),
                                             Decreased(c, 3, 2))])
            EXCEPT !.congested = TRUE, !.last_decrease_time = t]
    ELSE c

\* CongestionController.reset
reset(c) ==
    [c EXCEPT !.current_rate = Whole(c.initial_rate),
              !.pacing_bucket = [rate |-> Whole(c.initial_rate),
                                 burst |-> c.initial_rate \div 10],
              !.sent_count = 0, !.ack_count = 0, !.loss_count = 0,
              !.congested = FALSE]

\* the history after a step that leaves the controller as c2: a step other
\* than an acknowledgement starts a new run of acknowledgements when it
\* zeroes the ack count (a window reset, reset()), and ends the run's
\* steadiness when it changes the rate or leaves the controller congested
Stepped(h, c2, acked) ==
    LET zeroed == acked = 0 /\ c2.ack_count = 0
                  /\ (c2.window_start # cc.window_start \/ cc_ret'.op = "reset")
        by == IF c2.last_decrease_time # cc.last_decrease_time
              THEN cc_ret'.op
              ELSE IF cc_ret'.op = "reset" THEN "none" ELSE h.decreased_by
    IN IF zeroed
       THEN [steps |-> h.steps + 1, acks |-> 0, rate0 |-> c2.current_rate,
             steady |-> ~c2.congested, decreased_by |-> by]
       ELSE [steps |-> h.steps + 1, acks |-> h.acks + acked,
             rate0 |-> h.rate0,
             steady |-> h.steady /\ ~c2.congested
                        /\ (acked > 0 \/ c2.current_rate = cc.current_rate),
             decreased_by |-> by]

\* one call on the controller, leaving it as c2
CCCall(op, count, c2, acked) ==
    /\ cc_hist.steps < MaxCCSteps
    /\ cc' = c2
    /\ cc_ret' = CCRet(op, count)
    /\ cc_hist' = Stepped(cc_hist, c2, acked)
    /\ UNCHANGED notCCVars

OnPacketSent == CCCall("on_packet_sent", 0, on_packet_sent(cc), 0)
OnAckReceived(count) ==
    CCCall("on_ack_received", count, on_ack_received(cc, count), count)
OnLossDetected(count) ==
    CCCall("on_loss_detected", count, on_loss_detected(cc, count, now), 0)
OnTimeout == CCCall("on_timeout", 0, on_timeout(cc, now), 0)
CCReset == CCCall("reset", 0, reset(cc), 0)

\* d milliseconds pass
Elapse(d) ==
    /\ cc_hist.steps < MaxCCSteps
    /\ now' = now + d
    /\ ret' = Ret("none", NoPacket, TRUE, NoEntry.sort_key)
    /\ cc_hist' = [cc_hist EXCEPT !.steps = @ + 1]
    /\ UNCHANGED <<cc, cc_ret>>
    /\ UNCHANGED <<queue, max_size, stats, enqueue_order, congested, send_rate,
                   rate_changes, traffic, codecVars, packetVars, bucketVars,
                   simVars, admVars, simpleVars, raceVars, batchVars,
                   syncVars, lifeVars, engineVars>>

\* controllers with the default rates (500 within [50, 5000]), with a
\* maximum just above the initial rate, and with an initial rate just above
\* the minimum; loss thresholds 0.02 (the default) and 0.5
InitCC ==
    /\ SchedInit({"priority"})
    /\ max_size = 0
    /\ CodecIdle /\ PacketIdle /\ BucketIdle /\ SimIdle /\ EngineIdle
    /\ LifeIdle /\ SyncIdle
    /\ BatchIdle /\ RaceIdle /\ SimpleIdle /\ AdmIdle
    /\ \E rates \in {<<500, 50, 5000>>, <<500, 50, 505>>, <<60, 50, 5000>>},
          loss_threshold \in {<<1, 50>>, <<1, 2>>} :
          CCInit(rates[1], rates[2], rates[3], loss_threshold)

OnAckReceivedAny == \E count \in {5, 10, 20} : OnAckReceived(count)
OnLossDetectedAny == \E count \in {1} : OnLossDetected(count)
ElapseAny == \E d \in {500, 1000} : Elapse(d)

NextCC ==
    \/ OnPacketSent \/ OnAckReceivedAny \/ OnLossDetectedAny \/ OnTimeout
    \/ CCReset \/ ElapseAny

SpecCC == InitCC /\ [][NextCC]_vars

---------------------------------------------------------------------------
(* rate_control.py: AdmissionController.  A call is made by one caller at  *)
(* a time; admit takes the bucket's lock and then the controller's.        *)

\* AdmissionController.admit(priority) at clock value t: the controller
\* left and the value returned
admit_refilling_every_bucket(a, pri, t) ==
    LET r == [a EXCEPT !.buckets =
                 [p \in DOMAIN a.buckets |-> refill(a.buckets[p], t)]]
        c == consume(r.buckets[pri], t, 1)
        b == [r EXCEPT !.buckets[pri] = c.bucket]
    IN IF pri \notin DOMAIN a.buckets
       THEN [admission |-> a, ok |-> TRUE]
       ELSE IF c.ok
       THEN [admission |-> [b EXCEPT !.stats[pri].admitted = @ + 1],
             ok |-> TRUE]
       ELSE [admission |-> [b EXCEPT !.stats[pri].rejected = @ + 1],
             ok |-> FALSE]

admit(a, pri, t) ==
    IF pri = CRITICAL /\ ~a.enable_critical_limit
    THEN [admission |-> [a EXCEPT !.stats[pri].admitted = @ + 1], ok |-> TRUE]
    ELSE IF pri \notin DOMAIN a.buckets
    THEN [admission |-> a, ok |-> TRUE]
    ELSE LET c == consume(a.buckets[pri], t, 1)
             b == [a EXCEPT !.buckets[pri] = c.bucket]
         IN IF c.ok
            THEN [admission |-> [b EXCEPT !.stats[pri].admitted = @ + 1],
                  ok |-> TRUE]
            ELSE [admission |-> [b EXCEPT !.stats[pri].rejected = @ + 1],
                  ok |-> FALSE]

\* AdmissionController.reset at clock value t: every bucket is reset (full,
\* stamped now) and the statistics start again
admission_reset(a, t) ==
    [a EXCEPT !.buckets = [p \in DOMAIN a.buckets |->
                              [a.buckets[p] EXCEPT
                                  !.tokens = Whole(a.buckets[p].burst),
                                  !.last_update = t]],
              !.stats = [p \in Priority |-> [admitted |-> 0, rejected |-> 0]]]

\* controller.admit(pri)
Admit(pri) ==
    /\ adm_ret.calls < MaxAdmitCalls
    /\ LET r == admit(admission, pri, now)
       IN /\ admission' = r.admission
          /\ adm_ret' = AdmRet("admit", pri, r.ok, adm_ret.calls + 1)
    /\ UNCHANGED notAdmVars

\* controller.reset()
AdmissionReset ==
    /\ adm_ret.calls < MaxAdmitCalls
    /\ admission' = admission_reset(admission, now)
    /\ adm_ret' = AdmRet("reset", CRITICAL, TRUE, adm_ret.calls + 1)
    /\ UNCHANGED notAdmVars

\* limits on every class of half a token per millisecond and a burst of
\* one; limits on CRITICAL (one token per millisecond, burst two, starting
\* empty) and LOW alone; and the default limits
AdmissionLimits ==
    { [p \in Priority |-> TokenBucketConfig(500, 1, None)],
      [p \in {CRITICAL, LOW} |->
          IF p = CRITICAL THEN TokenBucketConfig(1000, 2, 0)
                          ELSE TokenBucketConfig(500, 1, None)],
      <<>> }

InitAdmission ==
    /\ SchedInit({"priority"})
    /\ max_size = 0
    /\ CodecIdle /\ PacketIdle /\ BucketIdle /\ SimIdle /\ EngineIdle
    /\ LifeIdle /\ SyncIdle
    /\ BatchIdle /\ RaceIdle /\ SimpleIdle /\ CCIdle
    /\ \E limits \in AdmissionLimits, enable_critical_limit \in BOOLEAN :
          AdmInit(limits, enable_critical_limit)

AdmitAny == \E pri \in Priority : Admit(pri)

NextAdmission == AdmitAny \/ AdmissionReset \/ Tick

SpecAdmission == InitAdmission /\ [][NextAdmission]_vars

---------------------------------------------------------------------------
(* scheduler.py: DTPScheduler.set_congested called from several threads.    *)
(* The method takes no lock: its two assignments, and the read and the      *)
(* write of _send_rate within the second, are separate steps of the         *)
(* calling thread, and the steps of two threads interleave.  enqueue and    *)
(* dequeue hold the lock and stay atomic.                                   *)

\* thread t enters set_congested(c): self._congested = congested
SetCongestedEnter(t, c) ==
    /\ setter[t].pc = "idle"
    /\ rate_changes + Cardinality({u \in SetterThreads : setter[u].pc # "idle"})
          < MaxRateChanges
    /\ congested' = c
    /\ setter' = [setter EXCEPT ![t] = [pc |-> "read", congested |-> c,
                                        send_rate |-> <<0, 1>>]]
    /\ ret' = Ret("none", NoPacket, TRUE, NoEntry.sort_key)
    /\ UNCHANGED <<queue, max_size, stats, enqueue_order, send_rate,
                   rate_changes, now, traffic, set_calls>>
    /\ UNCHANGED notRaceVars

\* thread t evaluates self._send_rate on the right-hand side
SetCongestedRead(t) ==
    /\ setter[t].pc = "read"
    /\ setter' = [setter EXCEPT ![t].pc = "write", ![t].send_rate = send_rate]
    /\ ret' = Ret("none", NoPacket, TRUE, NoEntry.sort_key)
    /\ UNCHANGED <<queue, max_size, stats, enqueue_order, congested, send_rate,
                   rate_changes, now, traffic, set_calls>>
    /\ UNCHANGED notRaceVars

\* thread t assigns self._send_rate from the value it read, and returns
SetCongestedWrite(t) ==
    /\ setter[t].pc = "write"
    /\ send_rate' = IF setter[t].congested
                    THEN FracMax(<<50, 1>>, FracMul(setter[t].send_rate, 1, 2))
                    ELSE FracMin(<<1000, 1>>, FracMul(setter[t].send_rate, 6, 5))
    /\ rate_changes' = rate_changes + 1
    /\ set_calls' = IF setter[t].congested
                    THEN [set_calls EXCEPT !.true = @ + 1]
                    ELSE [set_calls EXCEPT !.false = @ + 1]
    /\ setter' = [setter EXCEPT ![t] = NoFrame]
    /\ ret' = Ret("set_congested", NoPacket, TRUE, NoEntry.sort_key)
    /\ UNCHANGED <<queue, max_size, stats, enqueue_order, congested, now,
                   traffic>>
    /\ UNCHANGED notRaceVars

\* a scheduler shared by a sending thread (enqueue, dequeue) and the
\* threads that signal congestion
InitRace ==
    /\ SchedInitSized({"simulation"}, {1})
    /\ CodecIdle /\ PacketIdle /\ BucketIdle /\ SimIdle /\ EngineIdle
    /\ LifeIdle /\ SyncIdle
    /\ BatchIdle /\ CCIdle /\ AdmIdle
    /\ SimpleIdle /\ RaceIdle

SetCongestedEnterAny ==
    \E t \in SetterThreads, c \in BOOLEAN : SetCongestedEnter(t, c)
SetCongestedReadAny == \E t \in SetterThreads : SetCongestedRead(t)
SetCongestedWriteAny == \E t \in SetterThreads : SetCongestedWrite(t)

NextRace ==
    \/ SetCongestedEnterAny \/ SetCongestedReadAny \/ SetCongestedWriteAny
    \/ EnqueueAny \/ Dequeue

SpecRace == InitRace /\ [][NextRace]_vars

---------------------------------------------------------------------------
(* scheduler.py: DTPScheduler.add_to_batch, _flush_batch and flush_all,     *)
(* which run under the scheduler's lock; the clock counts milliseconds.     *)

\* flags |= bit
WithFlag(flags, bit) == IF HasFlag(flags, bit) THEN flags ELSE flags + bit

\* DTPScheduler._flush_batch: the batching state left, the list returned
flush_batch_reusing_id(b) ==
    IF b.current = <<>>
    THEN [batch |-> b, returned |-> <<>>]
    ELSE [batch |-> [b EXCEPT !.current = <<>>, !.start_time = None,
                              !.batches_sent = @ + 1],
          returned |-> [i \in 1..Len(b.current) |->
                          [b.current[i] EXCEPT
                              !.flags = WithFlag(@, BATCHED),
                              !.batch_id = b.id]]]

flush_batch(b) ==
    IF b.current = <<>>
    THEN [batch |-> b, returned |-> <<>>]
    ELSE [batch |-> [b EXCEPT !.id = @ + 1, !.current = <<>>,
                              !.start_time = None, !.batches_sent = @ + 1],
          returned |-> [i \in 1..Len(b.current) |->
                          [b.current[i] EXCEPT
                              !.flags = WithFlag(@, BATCHED),
                              !.batch_id = b.id + 1]]]

\* DTPScheduler.add_to_batch(packet) at clock value t: the batching state
\* left, and the batch returned or None
add_to_batch(b, p, t) ==
    LET started == IF b.start_time = None THEN [b EXCEPT !.start_time = t]
                                          ELSE b
        appended == [started EXCEPT !.current = Append(@, p)]
        batch_ready == \/ Len(appended.current) >= b.size
                       \/ t - appended.start_time >= b.timeout_ms
        f == flush_batch(appended)
    IN IF batch_ready
       THEN [batch |-> f.batch, returned |-> f.returned, none |-> FALSE]
       ELSE [batch |-> appended, returned |-> <<>>, none |-> TRUE]

\* the history after a call that returned the list l
Flushed(h, l) ==
    [calls |-> h.calls + 1,
     ids |-> IF l = <<>> THEN h.ids ELSE Append(h.ids, l[1].batch_id)]

\* scheduler.add_to_batch(p), p carrying the next sequence number
AddToBatch(pri) ==
    /\ batch_hist.calls < MaxBatchCalls
    /\ LET p == create_data(pri, batch_hist.calls, get_default_deadline(pri),
                            IF pri = LOW THEN DROPPABLE ELSE FLAG_NONE, now)
           r == add_to_batch(batching, p, now)
       IN /\ batching' = r.batch
          /\ batch_ret' = BatchRet("add_to_batch", r.returned, r.none)
          /\ batch_hist' = Flushed(batch_hist, r.returned)
    /\ UNCHANGED notBatchVars

\* scheduler.flush_all()
FlushAll ==
    /\ batch_hist.calls < MaxBatchCalls
    /\ LET f == flush_batch(batching)
       IN /\ batching' = f.batch
          /\ batch_ret' = BatchRet("flush_all", f.returned, FALSE)
          /\ batch_hist' = Flushed(batch_hist, f.returned)
    /\ UNCHANGED notBatchVars

\* schedulers that flush batches of one to MaxBatchSize packets, after 2 ms
\* or after the default 50 ms
InitBatch ==
    /\ SchedInitSized({"priority"}, {1000})
    /\ CodecIdle /\ PacketIdle /\ BucketIdle /\ SimIdle /\ EngineIdle
    /\ LifeIdle /\ SyncIdle
    /\ CCIdle /\ AdmIdle
    /\ SimpleIdle /\ RaceIdle
    /\ \E batch_size \in 1..MaxBatchSize, batch_timeout_ms \in {2, 50} :
          BatchInit(batch_size, batch_timeout_ms)

AddToBatchAny == \E pri \in {CRITICAL, LOW} : AddToBatch(pri)

NextBatch == AddToBatchAny \/ FlushAll \/ Clear \/ Tick

SpecBatch == InitBatch /\ [][NextBatch]_vars

\* the same with time passing: the clock does not stop.  The scheduler
\* starts no thread and no timer, so nothing else is bound to happen.
SpecBatchTimed == SpecBatch /\ WF_vars(Tick)

---------------------------------------------------------------------------
(* client.py: the life of a DTPClient: start, run_simulation, pause and     *)
(* resume, stop, its three threads (_receive_loop, _simulation_loop and     *)
(* the sender_loop it starts) and the Timer threads of _handle_response.    *)
(* A thread's step is one pass from one blocking call or loop test to the   *)
(* next.  server.py, clock_sync.py: start and stop of DTPServer and         *)
(* ClockSyncServer and their _receive_loop / _serve_loop thread.            *)

\* DTPClient.start()
ClientStart ==
    /\ subsystem = "client"
    /\ ~client.running /\ ~client.stopped
    /\ client' = [client EXCEPT !.running = TRUE, !.socket = "open",
                                !.recv = "check"]
    /\ UNCHANGED <<subsystem, responses, responder>>
    /\ UNCHANGED notLifeVars

\* DTPClient.run_simulation(): the _simulation_loop thread builds its
\* schedule, sets sender_running and starts sender_loop
RunSimulation ==
    /\ subsystem = "client"
    /\ client.socket = "open" /\ client.sim = "none" /\ ~client.stopped
    /\ client' = [client EXCEPT !.sim = "outer", !.sender = "head",
                                !.sender_running = TRUE]
    /\ UNCHANGED <<subsystem, responses, responder>>
    /\ UNCHANGED notLifeVars

\* DTPClient.pause() / resume()
Pause ==
    /\ subsystem = "client"
    /\ client.socket # "none" /\ ~client.paused
    /\ client' = [client EXCEPT !.paused = TRUE]
    /\ UNCHANGED <<subsystem, responses, responder>>
    /\ UNCHANGED notLifeVars

Resume ==
    /\ subsystem = "client"
    /\ client.paused
    /\ client' = [client EXCEPT !.paused = FALSE]
    /\ UNCHANGED <<subsystem, responses, responder>>
    /\ UNCHANGED notLifeVars

\* DTPClient.stop() up to the joins: _running = False, scheduler.clear()
ClientStop ==
    /\ subsystem = "client"
    /\ client.socket = "open" /\ ~client.stopped
    /\ client' = [client EXCEPT !.running = FALSE, !.stopped = TRUE]
    /\ clear_call
    /\ UNCHANGED <<subsystem, responses, responder>>
    /\ UNCHANGED simVars
    /\ UNCHANGED notClientVars

\* DTPClient.stop() after the joins (each returns when its thread has ended
\* or after 1 s): the socket is closed
ClientStopReturns ==
    /\ subsystem = "client"
    /\ client.stopped /\ client.socket = "open"
    /\ client' = [client EXCEPT !.socket = "closed"]
    /\ UNCHANGED <<subsystem, responses, responder>>
    /\ UNCHANGED notLifeVars

\* _simulation_loop: the test of the outer while
SimOuter ==
    /\ client.sim = "outer"
    /\ client' = [client EXCEPT
                     !.sim = IF client.packet_index < client.total
                                /\ client.running
                             THEN "inner" ELSE "finish"]
    /\ UNCHANGED <<subsystem, responses, responder>>
    /\ UNCHANGED notLifeVars

\* _simulation_loop, inner while: the next packet of the schedule is due;
\* create_data with sequence=seq, enqueue, record_sent, seq += 1,
\* packet_index += 1.  client.packet is the header of the packet created.
SimGenerate ==
    /\ client.sim = "inner"
    /\ client.packet_index < client.total
    /\ \E p \in Packets(traffic, now) :
          /\ enqueue_call(p)
          /\ metrics' = record_sent(metrics, p.priority)
          /\ client' = [client EXCEPT
                           !.packet = create_data(p.priority, client.seq,
                                                  p.deadline, p.flags, now),
                           !.seq = @ + 1,
                           !.packet_index = @ + 1]
    /\ UNCHANGED <<producer, in_flight, server>>
    /\ UNCHANGED <<subsystem, responses, responder>>
    /\ UNCHANGED batchVars
    /\ UNCHANGED notClientVars

\* _simulation_loop, inner while: the schedule is exhausted or its next
\* packet is not due yet; sleep(0.001) and back to the outer test
SimBreak ==
    /\ client.sim = "inner"
    /\ client' = [client EXCEPT !.sim = "outer"]
    /\ UNCHANGED <<subsystem, responses, responder>>
    /\ UNCHANGED notLifeVars

\* _simulation_loop after the outer while: flush_all() (the batch buffer is
\* empty: the loop never calls add_to_batch) and sender_running.clear()
SimFinish ==
    /\ client.sim = "finish"
    /\ client' = [client EXCEPT !.sim = "join", !.sender_running = FALSE]
    /\ UNCHANGED <<subsystem, responses, responder>>
    /\ UNCHANGED notLifeVars

\* _simulation_loop: sender_thread.join(timeout=10.0) returns, the sender
\* ended or not
SimJoin ==
    /\ client.sim = "join"
    /\ client' = [client EXCEPT !.sim = "done"]
    /\ UNCHANGED <<subsystem, responses, responder>>
    /\ UNCHANGED notLifeVars

\* empty_streak after one more pass with nothing to send.  The loop only
\* compares it with 100, so it is kept as one of 0, 1 (for 1..100) and 101
\* (for any larger value); a streak of 1..100 stays there or passes 100.
streak_after(n) ==
    IF n = 0 THEN {1}
    ELSE IF n > EmptyStreakLimit THEN {n}
    ELSE {n, EmptyStreakLimit + 1}

\* one pass of sender_loop: the while test, the pause test, dequeue and
\* _send_packet (an exception of serialize or sendto is swallowed)
SenderPass ==
    /\ client.sender = "head"
    /\ IF ~(client.sender_running \/ Len(queue) > 0)
       THEN /\ client' = [client EXCEPT !.sender = "done"]
            /\ UNCHANGED <<schedVars, in_flight, batching>>
       ELSE IF client.paused
       THEN UNCHANGED <<client, schedVars, in_flight, batching>>
       ELSE \E streak \in IF dequeue_loop(queue, now, 0).found THEN {0}
                           ELSE streak_after(client.empty_streak) :
            LET r == dequeue_loop(queue, now, 0)
                sent == serialize(r.entry.packet)
            IN /\ dequeue_call
               /\ in_flight' = IF r.found /\ sent.ok /\ client.socket = "open"
                               THEN Append(in_flight,
                                           Datagram(sent.bytes, "client"))
                               ELSE in_flight
               /\ client' = [client EXCEPT
                                !.empty_streak = streak,
                                !.sender = IF streak > EmptyStreakLimit
                                              /\ ~client.sender_running
                                           THEN "done" ELSE "head"]
               /\ UNCHANGED batching
    /\ UNCHANGED <<metrics, producer, server>>
    /\ UNCHANGED <<subsystem, responses, responder>>
    /\ UNCHANGED <<batch_ret, batch_hist>>
    /\ UNCHANGED notClientVars

\* a packet of the given type is sent to the client's socket
ResponseArrives(ty) ==
    /\ subsystem = "client"
    /\ client.socket = "open"
    /\ Len(responses) + Len(client.on_congestion) < MaxResponses
    /\ responses' = Append(responses, ty)
    /\ UNCHANGED <<subsystem, client, responder>>
    /\ UNCHANGED notLifeVars

\* _receive_loop: the while test
ReceiveTest ==
    /\ client.recv = "check"
    /\ client' = [client EXCEPT
                     !.recv = IF client.running THEN "recvfrom" ELSE "done"]
    /\ UNCHANGED <<subsystem, responses, responder>>
    /\ UNCHANGED notLifeVars

\* _receive_loop: recvfrom times out, or raises on the closed socket
ReceiveNothing ==
    /\ client.recv = "recvfrom"
    /\ client' = [client EXCEPT !.recv = "check"]
    /\ UNCHANGED <<subsystem, responses, responder>>
    /\ UNCHANGED notLifeVars

\* _receive_loop: recvfrom returns a datagram; _handle_response calls
\* set_congested(True) and the callback and starts a Timer for a
\* CONGESTION packet, and does nothing for any other
ReceiveResponse ==
    /\ client.recv = "recvfrom"
    /\ client.socket = "open"
    /\ responses # <<>>
    /\ responses' = Tail(responses)
    /\ IF Head(responses) = CONGESTION
       THEN /\ set_congested_call(TRUE)
            /\ client' = [client EXCEPT
                             !.recv = "check", !.timers = @ + 1,
                             !.on_congestion = Append(@, TRUE)]
       ELSE /\ client' = [client EXCEPT !.recv = "check"]
            /\ UNCHANGED schedVars
    /\ UNCHANGED <<subsystem, responder>>
    /\ UNCHANGED <<simVars, batchVars>>
    /\ UNCHANGED notClientVars

\* a Timer started by _handle_response fires: _clear_congestion
clear_congestion(c) ==
    /\ set_congested_call(FALSE)
    /\ client' = [c EXCEPT !.timers = @ - 1,
                           !.on_congestion = Append(@, FALSE)]

TimerFires ==
    /\ client.timers > 0
    /\ clear_congestion(client)
    /\ UNCHANGED <<subsystem, responses, responder>>
    /\ UNCHANGED <<simVars, batchVars>>
    /\ UNCHANGED notClientVars

\* DTPServer.start() / ClockSyncServer.start()
ResponderStart ==
    /\ subsystem \in {"server", "clock_sync"}
    /\ ~responder.running /\ ~responder.stopped
    /\ responder' = [responder EXCEPT !.running = TRUE, !.socket = "open",
                                      !.thread = "check"]
    /\ UNCHANGED <<subsystem, client, responses>>
    /\ UNCHANGED notLifeVars

\* DTPServer.stop() / ClockSyncServer.stop() up to the join
ResponderStop ==
    /\ responder.socket = "open" /\ ~responder.stopped
    /\ responder' = [responder EXCEPT !.running = FALSE, !.stopped = TRUE]
    /\ UNCHANGED <<subsystem, client, responses>>
    /\ UNCHANGED notLifeVars

\* stop() after the join (the thread ended, or the timeout passed): the
\* socket is closed
ResponderStopReturns ==
    /\ responder.stopped /\ responder.socket = "open"
    /\ responder' = [responder EXCEPT !.socket = "closed"]
    /\ UNCHANGED <<subsystem, client, responses>>
    /\ UNCHANGED notLifeVars

\* _receive_loop / _serve_loop: the while test
ResponderTest ==
    /\ responder.thread = "check"
    /\ responder' = [responder EXCEPT
                        !.thread = IF responder.running THEN "recvfrom"
                                   ELSE "done"]
    /\ UNCHANGED <<subsystem, client, responses>>
    /\ UNCHANGED notLifeVars

\* _receive_loop / _serve_loop: recvfrom returns a datagram, which is
\* handled, or times out, or raises on the closed socket; every exception
\* is swallowed
ResponderPass ==
    /\ responder.thread = "recvfrom"
    /\ responder' = [responder EXCEPT !.thread = "check"]
    /\ UNCHANGED <<subsystem, client, responses>>
    /\ UNCHANGED notLifeVars

\* a client whose CONGESTION and ACK packets arrive while it is started and
\* stopped; no simulation is run
InitTimer ==
    /\ SchedInitSized({"simulation"}, {1000})
    /\ CodecIdle /\ PacketIdle /\ BucketIdle /\ SimIdle /\ EngineIdle
    /\ SyncIdle
    /\ BatchIdle /\ RaceIdle /\ SimpleIdle /\ AdmIdle /\ CCIdle
    /\ LifeInit("client", 0)

ResponseArrivesAny == \E ty \in {CONGESTION, ACK} : ResponseArrives(ty)

NextTimer ==
    \/ ClientStart \/ ClientStop \/ ClientStopReturns
    \/ ResponseArrivesAny \/ ReceiveTest \/ ReceiveNothing \/ ReceiveResponse
    \/ TimerFires

SpecTimer == InitTimer /\ [][NextTimer]_vars

\* a client, a DTPServer or a ClockSyncServer that is started, used and
\* stopped at any moment; the client runs a simulation of `total` packets
InitStop ==
    /\ SchedInitSized({"simulation"}, {1000})
    /\ CodecIdle /\ PacketIdle /\ BucketIdle /\ SimIdle /\ EngineIdle
    /\ SyncIdle
    /\ BatchIdle /\ RaceIdle /\ SimpleIdle /\ AdmIdle /\ CCIdle
    /\ \E s \in {"client", "server", "clock_sync"} :
          \E total \in 1..MaxScheduled :
             LifeInit(s, IF s = "client" THEN total ELSE 0)

\* the calls made on the objects from outside
LifeCalls ==
    \/ ClientStart \/ RunSimulation \/ Pause \/ Resume
    \/ ClientStop \/ ClientStopReturns
    \/ ResponderStart \/ ResponderStop \/ ResponderStopReturns

\* the steps of the loop threads
ThreadSteps ==
    \/ ReceiveTest \/ ReceiveNothing
    \/ SimOuter \/ SimGenerate \/ SimBreak \/ SimFinish \/ SimJoin
    \/ SenderPass
    \/ ResponderTest \/ ResponderPass

NextStop == LifeCalls \/ ThreadSteps

\* every thread that can take a step eventually takes one; nothing obliges
\* the callers to call
ThreadsScheduled ==
    /\ WF_vars(ReceiveTest) /\ WF_vars(ReceiveNothing)
    /\ WF_vars(SimOuter) /\ WF_vars(SimGenerate) /\ WF_vars(SimBreak)
    /\ WF_vars(SimFinish) /\ WF_vars(SimJoin)
    /\ WF_vars(SenderPass)
    /\ WF_vars(ResponderTest) /\ WF_vars(ResponderPass)

SpecStop == InitStop /\ [][NextStop]_vars /\ ThreadsScheduled

\* the generation loop of a long run, taken up after `done` packets: seq
\* and packet_index have both been incremented `done` times, and the sender
\* has drained the queue.  enqueue_order, which only orders the entries of
\* the queue among themselves, is counted from this state.
SequenceStarts == {0, 1, SequenceModulus - 2, SequenceModulus - 1}

InitSeq ==
    /\ SchedInitSized({"simulation"}, {1000})
    /\ CodecIdle /\ PacketIdle /\ BucketIdle /\ SimIdle /\ EngineIdle
    /\ SyncIdle
    /\ BatchIdle /\ RaceIdle /\ SimpleIdle /\ AdmIdle /\ CCIdle
    /\ subsystem = "client" /\ responses = <<>> /\ responder = Responder
    /\ \E done \in SequenceStarts :
          client = [DTPClient(done + MaxEnqueueOrder) EXCEPT
                       !.running = TRUE, !.socket = "open",
                       !.recv = "check", !.sim = "outer",
                       !.sender = "head", !.sender_running = TRUE,
                       !.seq = done, !.packet_index = done]

NextSeq == SimOuter \/ SimGenerate \/ SimBreak \/ SimFinish \/ Tick

SpecSeq == InitSeq /\ [][NextSeq]_vars

---------------------------------------------------------------------------
(* simulation.py: SimulationEngine.  start() is one step; stop() is three,  *)
(* so that the threads interleave with it; a run's _monitor_completion      *)
(* thread steps from one read of the engine's fields to the next.           *)

\* SimulationEngine.start(config): server and client created and started,
\* _running set, state RUNNING, the client's send thread and the run's
\* monitor thread started
EngineStart(mode_key) ==
    /\ engine.state # "running"
    /\ engine.stop = "idle"
    /\ engine.runs < MaxEngineRuns
    /\ engine' = [engine EXCEPT
                     !.mode = mode_key, !.server = "started",
                     !.client = "started", !.sending = TRUE,
                     !.running = TRUE, !.state = "running",
                     !.runs = @ + 1, !.stop_returned = FALSE,
                     !.monitor[engine.runs + 1] = "test"]
    /\ UNCHANGED notEngineVars

\* the client's _simulation_loop thread ends: is_sending becomes False
SendThreadEnds ==
    /\ engine.client = "started" /\ engine.sending
    /\ engine' = [engine EXCEPT !.sending = FALSE]
    /\ UNCHANGED notEngineVars

\* SimulationEngine.stop(): self._running = False
EngineStop ==
    /\ engine.stop = "idle"
    /\ engine.runs > 0
    /\ engine' = [engine EXCEPT !.running = FALSE, !.stop = "client"]
    /\ UNCHANGED notEngineVars

\* SimulationEngine.stop(): self._client.stop(); self._client = None
EngineStopClient ==
    /\ engine.stop = "client"
    /\ engine' = [engine EXCEPT !.client = "none", !.sending = FALSE,
                                !.stop = "server"]
    /\ UNCHANGED notEngineVars

\* SimulationEngine.stop(): self._server.stop(); self._server = None; the
\* state set to IDLE; stop() returns
EngineStopReturns ==
    /\ engine.stop = "server"
    /\ engine' = [engine EXCEPT !.server = "none", !.state = "idle",
                                !.stop = "idle", !.stop_returned = TRUE]
    /\ UNCHANGED notEngineVars

\* SimulationEngine.pause() / resume(): the state is set whatever it was
EnginePause ==
    /\ engine.runs > 0 /\ engine.state # "paused"
    /\ engine' = [engine EXCEPT !.state = "paused"]
    /\ UNCHANGED notEngineVars

EngineResume ==
    /\ engine.state = "paused"
    /\ engine' = [engine EXCEPT !.state = "running"]
    /\ UNCHANGED notEngineVars

\* _monitor_completion: while self._running and self._client
MonitorTest(m) ==
    /\ engine.monitor[m] = "test"
    /\ engine' = [engine EXCEPT
                     !.monitor[m] = IF engine.running
                                       /\ engine.client # "none"
                                    THEN "is_sending" ELSE "done"]
    /\ UNCHANGED notEngineVars

\* _monitor_completion: if self._client.is_sending, which raises
\* AttributeError and ends the thread when stop() has set _client to None
MonitorIsSending(m) ==
    /\ engine.monitor[m] = "is_sending"
    /\ engine' = [engine EXCEPT
                     !.monitor[m] = IF engine.client = "none" THEN "done"
                                    ELSE IF engine.sending THEN "sleep_0_1"
                                    ELSE "sleep_0_5"]
    /\ UNCHANGED notEngineVars

\* _monitor_completion: time.sleep(0.1) ends; back to the while test
MonitorSleepEnds(m) ==
    /\ engine.monitor[m] = "sleep_0_1"
    /\ engine' = [engine EXCEPT !.monitor[m] = "test"]
    /\ UNCHANGED notEngineVars

\* _monitor_completion: time.sleep(0.5) ends; the state is set to COMPLETED
\* and the state-change callback notified
monitor_completes(e, m) ==
    [e EXCEPT !.state = "completed", !.monitor[m] = "store"]

MonitorCompletes(m) ==
    /\ engine.monitor[m] = "sleep_0_5"
    /\ engine' = monitor_completes(engine, m)
    /\ UNCHANGED notEngineVars

\* _monitor_completion: self._results[mode_key] = self.get_results(); break.
\* results[k] is the monitor that last stored under key k.
MonitorStores(m) ==
    /\ engine.monitor[m] = "store"
    /\ engine' = [engine EXCEPT !.results[engine.mode] = m,
                                !.monitor[m] = "done"]
    /\ UNCHANGED notEngineVars

InitEngine ==
    /\ SchedInit({"priority"})
    /\ CodecIdle /\ PacketIdle /\ BucketIdle /\ SimIdle /\ LifeIdle /\ SyncIdle
    /\ BatchIdle /\ RaceIdle /\ SimpleIdle /\ AdmIdle /\ CCIdle
    /\ EngineIdle

EngineStartAny == \E k \in {"dtp", "udp_raw"} : EngineStart(k)
MonitorTestAny == \E m \in 1..MaxEngineRuns : MonitorTest(m)
MonitorIsSendingAny == \E m \in 1..MaxEngineRuns : MonitorIsSending(m)
MonitorSleepEndsAny == \E m \in 1..MaxEngineRuns : MonitorSleepEnds(m)
MonitorCompletesAny == \E m \in 1..MaxEngineRuns : MonitorCompletes(m)
MonitorStoresAny == \E m \in 1..MaxEngineRuns : MonitorStores(m)

NextEngine ==
    \/ EngineStartAny \/ SendThreadEnds
    \/ EngineStop \/ EngineStopClient \/ EngineStopReturns
    \/ EnginePause \/ EngineResume
    \/ MonitorTestAny \/ MonitorIsSendingAny \/ MonitorSleepEndsAny
    \/ MonitorCompletesAny \/ MonitorStoresAny

SpecEngine == InitEngine /\ [][NextEngine]_vars

---------------------------------------------------------------------------

(* clock_sync.py: sync_with_server, ClockSyncClient.sync and _sync_round,   *)
(* and ClockSyncServer._serve_loop.  The clock counts milliseconds; now is  *)
(* the client's clock and the server's reads now + theta.  The client       *)
(* blocks in recvfrom, so the steps are: the call, the sending of a round's *)
(* request, the server's handling of a request, and the end of a round (a   *)
(* datagram received, or the timeout).                                      *)

\* a sequence of fractions with x put in its place among the sorted s
RECURSIVE InsertSorted(_, _)
InsertSorted(s, x) ==
    IF s = <<>> THEN <<x>>
    ELSE IF FracLess(x, Head(s)) THEN <<x>> \o s
    ELSE <<Head(s)>> \o InsertSorted(Tail(s), x)

\* sorted(data)
RECURSIVE sorted(_)
sorted(s) == IF s = <<>> THEN <<>> ELSE InsertSorted(sorted(Tail(s)), Head(s))

\* statistics.median(data) of a non-empty list
median_low(s) == sorted(s)[(Len(s) + 1) \div 2]

median(s) ==
    LET srt == sorted(s)
        n == Len(s)
        i == n \div 2
    IN IF n % 2 = 1 THEN srt[i + 1]
       ELSE FracMul(FracAdd(srt[i], srt[i + 1]), 1, 2)

\* ClockSyncClient._sync_round after recvfrom returned pkt at client time
\* t4: no sample, or the round's (offset, rtt)
NoSample == [ok |-> FALSE, offset |-> Whole(0), rtt |-> Whole(0)]

sync_round_ignoring_echo(t1, t4, pkt) ==
    IF pkt.ptype # SYNC_RESP
    THEN NoSample
    ELSE [ok |-> TRUE,
          offset |-> Frac((pkt.t2 - t1) + (pkt.t3 - t4), 2),
          rtt |-> Whole((t4 - t1) - (pkt.t3 - pkt.t2))]

sync_round_one_way_offset(t1, t4, pkt) ==
    IF pkt.ptype # SYNC_RESP \/ pkt.t1 # t1
    THEN NoSample
    ELSE [ok |-> TRUE,
          offset |-> Whole(pkt.t2 - t1),
          rtt |-> Whole((t4 - t1) - (pkt.t3 - pkt.t2))]

sync_round(t1, t4, pkt) ==
    IF pkt.ptype # SYNC_RESP \/ pkt.t1 # t1
    THEN NoSample
    ELSE [ok |-> TRUE,
          offset |-> Frac((pkt.t2 - t1) + (pkt.t3 - t4), 2),
          rtt |-> Whole((t4 - t1) - (pkt.t3 - pkt.t2))]

\* the end of ClockSyncClient.sync: None, or the medians
sync_result(offsets, rtts) ==
    IF offsets = <<>>
    THEN NoSyncResult
    ELSE SyncResult(median(offsets), median(rtts),
                    FracMul(median(rtts), 1, 2), Len(offsets))

\* sync_with_server returns: the offset is written to the register when
\* sync returned a result; the socket is closed, and what is still in
\* flight never arrives
SyncReturns(offsets, rtts) ==
    LET res == sync_result(offsets, rtts)
    IN /\ sync_ret' = res
       /\ clock_offset' = IF res.none THEN clock_offset ELSE res.offset_ms
       /\ sync_net' = [to_server |-> <<>>, to_client |-> <<>>]

\* sync_with_server(host, port, samples) is called
SyncWithServer(samples) ==
    /\ sync.pc \in {"idle", "done"}
    /\ sync_hist.calls < MaxSyncCalls
    /\ sync_hist.rounds + samples <= MaxSyncRounds
    /\ sync_hist' = [sync_hist EXCEPT !.calls = @ + 1, !.before = clock_offset,
                                      !.samples = <<>>]
    /\ IF samples = 0
       THEN /\ sync' = [NoSync EXCEPT !.pc = "done"]
            /\ SyncReturns(<<>>, <<>>)
       ELSE /\ sync' = [NoSync EXCEPT !.pc = "send", !.num_samples = samples]
            /\ sync_ret' = NoSyncResult
            /\ UNCHANGED <<clock_offset, sync_net>>
    /\ UNCHANGED <<sync_server, now>>
    /\ UNCHANGED notSyncVars

\* _sync_round: t1 = now_ms(), the request is sent, recvfrom blocks
SyncSend ==
    /\ sync.pc = "send"
    /\ sync' = [sync EXCEPT !.pc = "recv", !.t1 = now]
    /\ sync_net' = [sync_net EXCEPT
                       !.to_server = Append(@, SyncPacket(SYNC_REQ, now, 0,
                                                          0))]
    /\ sync_hist' = [sync_hist EXCEPT !.rounds = @ + 1]
    /\ UNCHANGED <<sync_server, clock_offset, sync_ret, now>>
    /\ UNCHANGED notSyncVars

\* ClockSyncServer._serve_loop receives the oldest request after it
\* travelled d1 ms, and answers p ms later: t2 and t3 are read from the
\* server's clock
ServerHandle(d1, p) ==
    /\ sync_net.to_server # <<>>
    /\ now + d1 + p < sync.t1 + 1000
    /\ LET req == Head(sync_net.to_server)
           t2 == now + d1 + sync_server.theta
           t3 == t2 + p
       IN sync_net' = [to_server |-> Tail(sync_net.to_server),
                       to_client |-> Append(sync_net.to_client,
                                            SyncPacket(SYNC_RESP, req.t1, t2,
                                                       t3))]
    /\ sync_server' = [sync_server EXCEPT !.requests_handled = @ + 1]
    /\ now' = now + d1 + p
    /\ UNCHANGED <<sync, clock_offset, sync_ret, sync_hist>>
    /\ UNCHANGED notSyncVars

\* a datagram that is no response of the server reaches the client's socket
SyncJunk(ptype) ==
    /\ sync.pc = "recv"
    /\ sync_hist.junk = 0
    /\ sync_net' = [sync_net EXCEPT
                       !.to_client = Append(@, SyncPacket(ptype, sync.t1,
                                                          sync.t1, sync.t1))]
    /\ sync_hist' = [sync_hist EXCEPT !.junk = 1]
    /\ UNCHANGED <<sync, sync_server, clock_offset, sync_ret, now>>
    /\ UNCHANGED notSyncVars

\* the round ends at client time t with outcome r (what happened in it is
\* kept in the history); after a sample the loop sleeps 10 ms; after the
\* last round sync and sync_with_server return
RoundEnds(r, t, seen) ==
    LET offsets == IF r.ok THEN Append(sync.offsets, r.offset) ELSE sync.offsets
        rtts == IF r.ok THEN Append(sync.rtts, r.rtt) ELSE sync.rtts
        last == sync.i + 1 = sync.num_samples
    IN /\ sync' = [sync EXCEPT !.i = @ + 1, !.offsets = offsets,
                               !.rtts = rtts,
                               !.pc = IF last THEN "done" ELSE "send"]
       /\ now' = IF r.ok THEN t + 10 ELSE t
       /\ sync_hist' = [sync_hist EXCEPT !.samples = Append(@, seen)]
       /\ IF last
          THEN SyncReturns(offsets, rtts)
          ELSE /\ sync_ret' = sync_ret
               /\ clock_offset' = clock_offset
               /\ sync_net' = [sync_net EXCEPT !.to_client = Tail(@)]

\* recvfrom returns the oldest datagram at the socket after it travelled
\* d2 ms: t4 = now_ms()
SyncReceive(d2) ==
    /\ sync.pc = "recv"
    /\ sync_net.to_client # <<>>
    /\ now + d2 < sync.t1 + 1000
    /\ LET pkt == Head(sync_net.to_client)
           t4 == now + d2
       IN RoundEnds(sync_round(sync.t1, t4, pkt), t4,
                    [kind |-> "received", pkt |-> pkt, t1 |-> sync.t1,
                     t4 |-> t4])
    /\ UNCHANGED sync_server
    /\ UNCHANGED notSyncVars

\* recvfrom raises socket.timeout after 1000 ms: what is in flight had not
\* arrived, and is still on its way
SyncTimeout ==
    /\ sync.pc = "recv"
    /\ LET last == sync.i + 1 = sync.num_samples
       IN /\ sync' = [sync EXCEPT !.i = @ + 1,
                                  !.pc = IF last THEN "done" ELSE "send"]
          /\ now' = sync.t1 + 1000
          /\ sync_hist' = [sync_hist EXCEPT
                              !.samples = Append(@,
                                  [kind |-> "timeout",
                                   pkt |-> SyncPacket(0, 0, 0, 0),
                                   t1 |-> sync.t1, t4 |-> 0])]
          /\ IF last
             THEN SyncReturns(sync.offsets, sync.rtts)
             ELSE UNCHANGED <<sync_ret, clock_offset, sync_net>>
    /\ UNCHANGED sync_server
    /\ UNCHANGED notSyncVars

\* servers whose clock agrees with the client's or is 100 ms ahead
InitSync ==
    /\ SchedInitSized({"priority"}, {1000})
    /\ CodecIdle /\ PacketIdle /\ BucketIdle /\ SimIdle /\ EngineIdle
    /\ LifeIdle /\ CCIdle /\ AdmIdle
    /\ SimpleIdle /\ RaceIdle /\ BatchIdle
    /\ \E theta \in {0, 100} : SyncInit(theta)

SyncWithServerAny == \E samples \in 0..MaxSyncRounds : SyncWithServer(samples)
ServerHandleAny == \E d1 \in {5, 10}, p \in {0, 2} : ServerHandle(d1, p)
SyncJunkAny == \E ptype \in {SYNC_REQ, SYNC_ACK} : SyncJunk(ptype)
SyncReceiveAny == \E d2 \in {5, 10} : SyncReceive(d2)

NextSync ==
    \/ SyncWithServerAny \/ SyncSend \/ ServerHandleAny \/ SyncJunkAny
    \/ SyncReceiveAny \/ SyncTimeout

SpecSync == InitSync /\ [][NextSync]_vars

---------------------------------------------------------------------------
(* scheduler.py: SimpleScheduler, the FIFO scheduler a client in mode       *)
(* UDP_RAW constructs in place of DTPScheduler (client.py __init__).  Its   *)
(* enqueue, dequeue and clear run under its lock; set_congested takes no    *)
(* lock and is modelled here for one caller at a time.                      *)

\* SimpleScheduler.enqueue(packet): the scheduler left, the value returned
simple_enqueue_evicting_oldest(s, p) ==
    IF Len(s.queue) >= s.max_size
    THEN [scheduler |-> [s EXCEPT !.queue = IF @ = <<>> THEN @
                                            ELSE Append(Tail(@), p),
                                  !.stats.dropped = @ + 1],
          ok |-> FALSE]
    ELSE [scheduler |-> [s EXCEPT !.queue = Append(@, p),
                                  !.stats.enqueued = @ + 1],
          ok |-> TRUE]

simple_enqueue(s, p) ==
    IF Len(s.queue) >= s.max_size
    THEN [scheduler |-> [s EXCEPT !.stats.dropped = @ + 1], ok |-> FALSE]
    ELSE [scheduler |-> [s EXCEPT !.queue = Append(@, p),
                                  !.stats.enqueued = @ + 1],
          ok |-> TRUE]

\* SimpleScheduler.dequeue(): the scheduler left, the packet returned (if any)
simple_dequeue(s) ==
    IF s.queue # <<>>
    THEN [scheduler |-> [s EXCEPT !.stats.dequeued = @ + 1,
                                  !.queue = Tail(@)],
          packet |-> Head(s.queue), found |-> TRUE]
    ELSE [scheduler |-> s, packet |-> NoHeader, found |-> FALSE]

\* SimpleScheduler.set_congested(congested)
simple_set_congested_without_limits(s, c) ==
    [s EXCEPT !.congested = c,
              !.send_rate = IF c THEN FracMul(@, 1, 2) ELSE FracMul(@, 6, 5)]

simple_set_congested(s, c) ==
    [s EXCEPT !.congested = c,
              !.send_rate = IF c THEN FracMax(<<50, 1>>, FracMul(@, 1, 2))
                                 ELSE FracMin(<<1000, 1>>, FracMul(@, 6, 5))]

\* SimpleScheduler.clear()
simple_clear(s) == [s EXCEPT !.queue = <<>>]

\* scheduler.enqueue(p), p carrying the next sequence number
SimpleEnqueue(pri, dl) ==
    /\ simple_hist.offered < MaxEnqueueOrder
    /\ LET p == create_data(pri, simple_hist.offered + 1, dl,
                            IF pri = LOW THEN DROPPABLE ELSE FLAG_NONE, now)
           r == simple_enqueue(simple, p)
       IN /\ simple' = r.scheduler
          /\ simple_ret' = SimpleRet("enqueue", p, r.ok)
          /\ simple_hist' = [simple_hist EXCEPT
                                !.offered = @ + 1,
                                !.accepted = IF r.ok THEN Append(@, p) ELSE @]
    /\ UNCHANGED mode
    /\ UNCHANGED notSimpleVars

\* scheduler.dequeue()
SimpleDequeue ==
    /\ LET r == simple_dequeue(simple)
       IN /\ simple' = r.scheduler
          /\ simple_ret' = SimpleRet("dequeue", r.packet, r.found)
          /\ simple_hist' = [simple_hist EXCEPT
                                !.returned = IF r.found
                                             THEN Append(@, r.packet) ELSE @]
    /\ UNCHANGED mode
    /\ UNCHANGED notSimpleVars

\* scheduler.set_congested(c)
SimpleSetCongested(c) ==
    /\ simple_hist.rate_changes < MaxRateChanges
    /\ simple' = simple_set_congested(simple, c)
    /\ simple_ret' = SimpleRet("set_congested", NoHeader, c)
    /\ simple_hist' = [simple_hist EXCEPT !.rate_changes = @ + 1]
    /\ UNCHANGED mode
    /\ UNCHANGED notSimpleVars

\* scheduler.clear(): the packets still queued will never be returned
SimpleClear ==
    /\ simple' = simple_clear(simple)
    /\ simple_ret' = SimpleRet("clear", NoHeader, TRUE)
    /\ simple_hist' = [simple_hist EXCEPT !.accepted = simple_hist.returned]
    /\ UNCHANGED mode
    /\ UNCHANGED notSimpleVars

\* a client constructs the scheduler of its mode (client.py __init__); the
\* run then calls that scheduler alone, offering the packets the
\* simulation creates; the clock stands still
InitMode ==
    /\ \/ /\ SchedInitSized({"simulation"}, 1..MaxQueueSize)
          /\ SimpleInit("dtp", 1000)
       \/ /\ SchedInitSized({"simulation"}, {1000})
          /\ \E queue_size \in 1..MaxQueueSize :
                SimpleInit("udp_raw", queue_size)
    /\ CodecIdle /\ PacketIdle /\ BucketIdle /\ SimIdle /\ EngineIdle
    /\ LifeIdle /\ SyncIdle
    /\ BatchIdle /\ RaceIdle /\ CCIdle /\ AdmIdle

SimpleEnqueueDefault ==
    \E pri \in {CRITICAL, LOW} : SimpleEnqueue(pri, get_default_deadline(pri))
SimpleSetCongestedAny == \E c \in BOOLEAN : SimpleSetCongested(c)

NextMode ==
    \/ mode = "dtp" /\ (EnqueueAny \/ Dequeue \/ SetCongestedAny \/ Clear)
    \/ mode = "udp_raw" /\ (SimpleEnqueueDefault \/ SimpleDequeue
                             \/ SimpleSetCongestedAny \/ SimpleClear)

SpecMode == InitMode /\ [][NextMode]_vars

\* the FIFO scheduler on its own, with packets of deadline 1 that expire
\* while they are queued
InitSimple ==
    /\ SchedInitSized({"priority"}, {1000})
    /\ \E queue_size \in 0..MaxQueueSize : SimpleInit("udp_raw", queue_size)
    /\ CodecIdle /\ PacketIdle /\ BucketIdle /\ SimIdle /\ EngineIdle
    /\ LifeIdle /\ SyncIdle
    /\ BatchIdle /\ RaceIdle /\ CCIdle /\ AdmIdle

SimpleEnqueueAny == \E pri \in {CRITICAL, LOW} : SimpleEnqueue(pri, 1)

NextSimple == SimpleEnqueueAny \/ SimpleDequeue \/ SimpleClear \/ Tick

SpecSimple == InitSimple /\ [][NextSimple]_vars

---------------------------------------------------------------------------
(* Properties of the scheduler *)

Entries(q) == {q[i] : i \in DOMAIN q}

\* expired as the specification words it: now - timestamp > deadline
PastDeadline(p, t) == t - p.timestamp > p.deadline

\* C1: when dequeue returns a packet, no entry still queued that can yet be
\* returned (it is not expired) has a numerically lower priority value: of
\* two packets queued together the more important one is dequeued first,
\* whatever the order of their enqueues.
C1_PriorityOrder ==
    (ret.op = "dequeue" /\ ret.ok) =>
        \A e \in Entries(queue) :
            ~is_expired(e.packet, now) => e.packet.priority >= ret.pkt.priority

\* a dequeue returned HIGH while a LOW packet enqueued before it stays queued
C1_Witness ==
    /\ ret.op = "dequeue" /\ ret.ok /\ ret.pkt.priority = HIGH
    /\ \E e \in Entries(queue) :
          /\ e.packet.priority = LOW
          /\ e.sort_key[3] < ret.key[3]
          /\ ~is_expired(e.packet, now)

\* C2: when dequeue returns a packet, no non-expired entry of the same
\* priority still queued had a smaller time-to-deadline at its enqueue than
\* the returned packet had at its own (earliest deadline first).
C2_EarliestDeadlineFirst ==
    (ret.op = "dequeue" /\ ret.ok) =>
        \A e \in Entries(queue) :
            (e.packet.priority = ret.pkt.priority /\ ~is_expired(e.packet, now))
                => ~((0 - e.sort_key[2]) < (0 - ret.key[2]))

\* C3: the queue never holds more entries than the configured maximum.
C3_QueueWithinMax == 0 <= Len(queue) /\ Len(queue) <= max_size

\* C4: an enqueue on a full queue of a packet that is not LOW and DROPPABLE
\* removes exactly one entry, one of the numerically highest priority value
\* queued, admits the packet, adds one to dropped_full and leaves the queue
\* at its maximum size.
C4_EvictLowestWhenFull ==
    [][(ret'.op = "enqueue" /\ Len(queue) >= max_size
        /\ ~(ret'.pkt.priority = LOW /\ HasFlag(ret'.pkt.flags, DROPPABLE)))
       => /\ ret'.ok
          /\ stats'.dropped_full = stats.dropped_full + 1
          /\ Len(queue') = max_size
          /\ \E victim \in Entries(queue) :
                /\ \A e \in Entries(queue) :
                      e.packet.priority <= victim.packet.priority
                /\ Entries(queue') =
                      (Entries(queue) \ {victim})
                      \cup {[sort_key |-> ret'.key, packet |-> ret'.pkt]}
                /\ Cardinality(Entries(queue')) = Len(queue')
      ]_vars

\* C5: an enqueue on a full queue of a LOW packet carrying DROPPABLE is
\* rejected: it returns false, dropped_full grows by one, and the queue, the
\* enqueued counter and the enqueue sequence counter are unchanged.
C5_RejectDroppableLowWhenFull ==
    [][(ret'.op = "enqueue" /\ Len(queue) >= max_size
        /\ ret'.pkt.priority = LOW /\ HasFlag(ret'.pkt.flags, DROPPABLE))
       => /\ ~ret'.ok
          /\ stats'.dropped_full = stats.dropped_full + 1
          /\ queue' = queue
          /\ stats'.enqueued = stats.enqueued
          /\ stats'.dequeued = stats.dequeued
          /\ stats'.dropped_expired = stats.dropped_expired
          /\ enqueue_order' = enqueue_order
      ]_vars

\* a LOW DROPPABLE packet has just been rejected by a full, non-empty queue
C5_Witness ==
    /\ ret.op = "enqueue" /\ ~ret.ok
    /\ ret.pkt.priority = LOW /\ HasFlag(ret.pkt.flags, DROPPABLE)
    /\ Len(queue) = max_size /\ Len(queue) = MaxQueueSize
    /\ stats.dropped_full = 1

\* C6 as stated: dequeue never returns a packet with
\* now - timestamp > deadline.
C6_NeverReturnsPastDeadline ==
    (ret.op = "dequeue" /\ ret.ok) => ~PastDeadline(ret.pkt, now)

\* C6 amended: dequeue never returns a stamped packet (timestamp # 0) with
\* now - timestamp > deadline; the entries it removes without returning are
\* exactly the stamped, past-deadline ones popped before the returned one,
\* each counted once in dropped_expired; it returns nothing only when it has
\* emptied the queue.
C6_NeverReturnsExpiredStamped ==
    /\ [](ret.op = "dequeue" /\ ret.ok
            => ~(ret.pkt.timestamp # 0 /\ PastDeadline(ret.pkt, now)))
    /\ [][ret'.op = "dequeue" =>
            LET returned == IF ret'.ok
                            THEN {[sort_key |-> ret'.key, packet |-> ret'.pkt]}
                            ELSE {}
                discarded == (Entries(queue) \ Entries(queue')) \ returned
            IN /\ Entries(queue') \subseteq Entries(queue)
               /\ returned \subseteq Entries(queue)
               /\ Cardinality(Entries(queue')) = Len(queue')
               /\ \A e \in discarded :
                     e.packet.timestamp # 0 /\ PastDeadline(e.packet, now)
               /\ stats'.dropped_expired =
                     stats.dropped_expired + Cardinality(discarded)
               /\ stats'.dequeued = stats.dequeued + Cardinality(returned)
               /\ (~ret'.ok => queue' = <<>>)
          ]_vars

\* a dequeue discarded an expired entry and returned a later one
C6_Witness ==
    /\ ret.op = "dequeue" /\ ret.ok
    /\ stats.dropped_expired >= 1
    /\ stats.dequeued >= 1

\* C7: a packet already expired when it is offered to enqueue is rejected.
C7_RejectsExpiredAtEnqueue ==
    (ret.op = "enqueue" /\ is_expired(ret.pkt, now)) => ~ret.ok

\* C8: while the scheduler is congested, dequeue returns no LOW packet.
C8_NoLowWhileCongested ==
    (congested /\ ret.op = "dequeue" /\ ret.ok) => ret.pkt.priority # LOW

---------------------------------------------------------------------------
(* Properties of the header codec *)

TooShort(d) == Len(d) < DTP_HEADER_SIZE
BadMagic(d) == ~TooShort(d) /\ <<d[1], d[2]>> # <<222, 173>>
BadEnum(d) ==
    /\ ~TooShort(d) /\ ~BadMagic(d)
    /\ (d[4] \notin PacketType \/ d[5] \notin Priority)

\* a well-formed 24-byte header
WellFormedHeader(d) ==
    Len(d) = DTP_HEADER_SIZE /\ ~BadMagic(d) /\ ~BadEnum(d)

\* C9: unpack accepts every well-formed 24-byte header x and pack of the
\* header it returns is x again; pack of a header whose fields fit their
\* wire widths is exactly 24 bytes, and unpack of those bytes is the header
\* again, field by field.
C9_PackUnpackInverse ==
    /\ (result.op = "unpack" /\ WellFormedHeader(data)) => result.ok
    /\ (result.op = "pack_unpacked" /\ Len(data) = DTP_HEADER_SIZE)
          => (result.ok /\ result.bytes = data)
    /\ (result.op = "pack" /\ FitsWire(header))
          => (result.ok /\ Len(result.bytes) = DTP_HEADER_SIZE)
    /\ result.op = "unpack_packed"
          => (result.ok /\ result.header = header)

\* a 24-byte buffer with large field values was unpacked and packed again
C9_Witness ==
    /\ result.op = "pack_unpacked" /\ WellFormedHeader(data)
    /\ result.header.sequence = 1234
    /\ result.header.timestamp = 2147483647
    /\ result.header.deadline = 100
    /\ result.header.priority = LOW

\* the error kinds unpack raises on malformed input (too short, wrong magic)
MalformedErrors ==
    {unpack(<<>>).error, unpack([i \in 1..DTP_HEADER_SIZE |-> 0]).error}

C11_RejectsOtherVersion ==
    (result.op \in {"unpack", "deserialize"}
     /\ ~TooShort(data) /\ ~BadMagic(data) /\ data[3] # DTP_VERSION)
        => ~result.ok

\* C12: every packet deserialize accepts has a payload of exactly
\* header.payload_length bytes; a datagram with fewer bytes after its header
\* than it declares is not accepted.
C12_PayloadLengthMatches ==
    (result.op = "deserialize" /\ result.ok)
        => Len(result.bytes) = result.header.payload_length

---------------------------------------------------------------------------
(* Properties of a received packet *)

\* C13: for a packet whose latency is known (it has been marked received and
\* its header is stamped; latency = receive time - header.timestamp),
\* is_on_time returns exactly latency <= header.deadline.
C13_OnTimeIffWithinDeadline ==
    (on_time.op = "is_on_time" /\ received_at # None /\ header.timestamp # 0)
        => (on_time.value <=> (received_at - header.timestamp <= header.deadline))

\* is_on_time has answered true for a packet received exactly at its deadline
C13_Witness ==
    /\ on_time.op = "is_on_time" /\ on_time.value
    /\ received_at # None /\ header.timestamp # 0
    /\ received_at - header.timestamp = header.deadline
    /\ header.deadline > 0

---------------------------------------------------------------------------
(* Properties of the token bucket *)

\* C14: the available token count of a TokenBucket, constructed with or
\* without an explicit initial count, is never below zero and never above
\* burst.
C14_TokensWithinBurst ==
    /\ FracLeq(Whole(0), bucket.tokens)
    /\ FracLeq(bucket.tokens, Whole(bucket.burst))

\* the token count a consume call at the current clock value decides on:
\* the count topped up by rate tokens per 1000 ms since the last update,
\* capped at burst
TokensAfterRefill ==
    IF now > bucket.last_update
    THEN FracMin(Whole(bucket.burst),
                 FracAdd(bucket.tokens,
                         Frac((now - bucket.last_update) * bucket.rate, 1000)))
    ELSE bucket.tokens

\* C15: consume(n) returns true iff the token count after refill is at
\* least n; then the count decreases by exactly n and the consumed counter
\* grows by n; otherwise the count is the refilled one and the rejected
\* counter grows by n.  In any interleaving of consume calls (no reset) the
\* tokens granted never exceed the tokens at construction plus the tokens
\* refilled.
C15_ConsumeChecksAndDecrements ==
    /\ [][(bucket_ret'.op = "consume"
            /\ bucket_hist'.calls = bucket_hist.calls + 1)
          => LET n == bucket_ret'.tokens
             IN /\ bucket_ret'.ok <=> FracLeq(Whole(n), TokensAfterRefill)
                /\ bucket_ret'.ok =>
                      /\ bucket'.tokens = FracSub(TokensAfterRefill, Whole(n))
                      /\ bucket'.total_consumed = bucket.total_consumed + n
                      /\ bucket'.total_rejected = bucket.total_rejected
                /\ ~bucket_ret'.ok =>
                      /\ bucket'.tokens = TokensAfterRefill
                      /\ bucket'.total_rejected = bucket.total_rejected + n
                      /\ bucket'.total_consumed = bucket.total_consumed
         ]_vars
    /\ [](~bucket_hist.reset =>
            FracLeq(Whole(bucket.total_consumed),
                    FracAdd(bucket_hist.initial, bucket_hist.refilled)))

\* a consume was granted from refilled tokens after an earlier one was
\* rejected
C15_Witness ==
    /\ bucket_ret.op = "consume" /\ bucket_ret.ok
    /\ bucket.total_rejected > 0
    /\ bucket.total_consumed >= 2
    /\ FracLess(Whole(0), bucket_hist.refilled)
    /\ ~bucket_hist.reset

---------------------------------------------------------------------------
(* Properties of the metrics *)

\* C16: for every priority class, at all times, the packets recorded sent
\* are at least the packets recorded received plus those recorded dropped.
C16_SentCoversReceivedAndDropped ==
    \A p \in Priority :
        metrics[p].total_packets
            >= metrics[p].received_packets + metrics[p].dropped_packets

---------------------------------------------------------------------------
(* Properties of the congestion controller *)

\* C17: the current rate of a controller constructed with
\* min_rate <= initial_rate <= max_rate stays within [min_rate, max_rate]
\* after any sequence of calls.
C17_RateWithinLimits ==
    /\ FracLeq(Whole(cc.min_rate), cc.current_rate)
    /\ FracLeq(cc.current_rate, Whole(cc.max_rate))

\* an additive increase has been cut off at max_rate
C17_Witness ==
    /\ cc_ret.op = "on_ack_received"
    /\ cc.current_rate = Whole(cc.max_rate)
    /\ cc.max_rate < cc.initial_rate + cc.additive_increase

\* a step that is the call op on the controller (not the passing of time)
CCStep(op) ==
    cc_ret'.op = op /\ cc_hist'.steps = cc_hist.steps + 1 /\ now' = now

\* lost / sent > loss_threshold for the window's counts
LossAboveThreshold(lost, sent) ==
    sent > 0 /\ lost * cc.loss_threshold[2] > cc.loss_threshold[1] * sent

\* max(min_rate, r * (1 - MD))
RateAfterDecrease ==
    FracMax(Whole(cc.min_rate),
            FracMul(cc.current_rate,
                    cc.multiplicative_decrease[2] - cc.multiplicative_decrease[1],
                    cc.multiplicative_decrease[2]))

\* C18 as stated: on every on_loss_detected, if lost/sent > loss_threshold
\* and at least the cooldown has elapsed since the last decrease, the rate
\* becomes max(min_rate, r * (1 - MD)) and congested is set; in every other
\* case congested is cleared.
C18_LossDecreasesOrClears ==
    [][CCStep("on_loss_detected") =>
        IF /\ LossAboveThreshold(cc.loss_count + cc_ret'.count, cc.sent_count)
           /\ now - cc.last_decrease_time >= cc.decrease_cooldown_ms
        THEN cc'.current_rate = RateAfterDecrease /\ cc'.congested
        ELSE ~cc'.congested
      ]_vars

\* C18 amended: on_loss_detected(n) adds n to the window's loss count and
\* evaluates the window only once at least window_size_ms have passed since
\* its start; it then zeroes the counts and restarts the window, and
\*  - with sent > 0 and lost/sent > loss_threshold: if more than the
\*    cooldown has passed since the last decrease, the rate becomes
\*    max(min_rate, r * (1 - MD)) and congested is set; if not, rate and
\*    congested are left as they are;
\*  - with sent > 0 and lost/sent <= loss_threshold: congested is cleared;
\*  - with sent = 0: rate and congested are left as they are.
\* Before the window has run its length, only the loss count changes.
C18_LossEvaluatesElapsedWindow ==
    [][CCStep("on_loss_detected") =>
        LET lost == cc.loss_count + cc_ret'.count
            sent == cc.sent_count
            high == LossAboveThreshold(lost, sent)
            cooled == now - cc.last_decrease_time > cc.decrease_cooldown_ms
            same == /\ cc'.current_rate = cc.current_rate
                    /\ cc'.congested = cc.congested
                    /\ cc'.last_decrease_time = cc.last_decrease_time
        IN IF now - cc.window_start >= cc.window_size_ms
           THEN /\ cc'.sent_count = 0 /\ cc'.loss_count = 0
                /\ cc'.ack_count = 0 /\ cc'.window_start = now
                /\ (high /\ cooled) =>
                      /\ cc'.current_rate = RateAfterDecrease
                      /\ cc'.congested
                      /\ cc'.last_decrease_time = now
                /\ (high /\ ~cooled) => same
                /\ (sent > 0 /\ ~high) =>
                      /\ cc'.current_rate = cc.current_rate
                      /\ ~cc'.congested
                /\ sent = 0 => same
           ELSE /\ same
                /\ cc'.loss_count = lost
                /\ cc'.sent_count = sent /\ cc'.ack_count = cc.ack_count
                /\ cc'.window_start = cc.window_start
      ]_vars

\* a loss report has halved the default rate of 500 and set congested
C18_Witness ==
    /\ cc_ret.op = "on_loss_detected"
    /\ cc.congested /\ cc.current_rate = Whole(250)
    /\ cc.last_decrease_time = now /\ cc.window_start = now
    /\ cc.loss_count = 0

\* C19: after a loss report has decreased the rate and set congested, in a
\* later window (at least window_size_ms after the decrease) in which
\* packets were sent and no loss was reported, the tenth acknowledgement
\* increases the rate by the additive increase again.
C19_RecoversWithoutLoss ==
    [][(/\ CCStep("on_ack_received")
        /\ cc_hist.decreased_by = "on_loss_detected"
        /\ now - cc.last_decrease_time >= cc.window_size_ms
        /\ cc.sent_count > 0 /\ cc.loss_count = 0
        /\ cc.ack_count + cc_ret'.count >= 10)
       => cc'.current_rate =
             FracMin(Whole(cc.max_rate),
                     FracAdd(cc.current_rate, Whole(cc.additive_increase)))
      ]_vars

\* C20: in a non-congested controller, once acknowledgements totalling
\* 10 * k have been reported since the ack count was last zeroed (in one
\* call or several, no window reset or other rate change in between), the
\* rate is min(max_rate, r0 + k * AI); in the congested state an
\* acknowledgement never changes the rate.
C20_IncreasePerTenAcks ==
    /\ []((cc_ret.op = "on_ack_received" /\ cc_hist.steady
            /\ cc_hist.acks % 10 = 0)
          => cc.current_rate =
                FracMin(Whole(cc.max_rate),
                        FracAdd(cc_hist.rate0,
                                Whole((cc_hist.acks \div 10)
                                      * cc.additive_increase))))
    /\ [][(CCStep("on_ack_received") /\ cc.congested)
            => cc'.current_rate = cc.current_rate]_vars

\* max(min_rate, r * (1 - 1.5 * MD))
RateAfterTimeout ==
    FracMax(Whole(cc.min_rate),
            FracMul(cc.current_rate,
                    2 * cc.multiplicative_decrease[2]
                      - 3 * cc.multiplicative_decrease[1],
                    2 * cc.multiplicative_decrease[2]))

\* C21 as stated: every on_timeout call makes the rate
\* max(min_rate, r * (1 - 1.5 * MD)), sets congested and stamps the time of
\* the last decrease, whatever the time since the previous decrease.
C21_TimeoutAlwaysDecreases ==
    [][CCStep("on_timeout") =>
        /\ cc'.current_rate = RateAfterTimeout
        /\ cc'.congested
        /\ cc'.last_decrease_time = now
      ]_vars

\* C21 amended: an on_timeout call made more than decrease_cooldown_ms
\* after the last decrease (the time of the last decrease is 0 at
\* construction) makes the rate max(min_rate, r * (1 - 1.5 * MD)), sets
\* congested and stamps the time of the last decrease; a call made within
\* the cooldown changes nothing.  The window's counts are never touched.
C21_TimeoutDecreasesAfterCooldown ==
    [][CCStep("on_timeout") =>
        IF now - cc.last_decrease_time > cc.decrease_cooldown_ms
        THEN /\ cc'.current_rate = RateAfterTimeout
             /\ cc'.congested
             /\ cc'.last_decrease_time = now
             /\ cc'.sent_count = cc.sent_count
             /\ cc'.loss_count = cc.loss_count
             /\ cc'.ack_count = cc.ack_count
             /\ cc'.window_start = cc.window_start
        ELSE cc' = cc
      ]_vars

\* a timeout has cut the default rate of 500 to a quarter, and a second
\* one has cut that to the minimum after the cooldown
C21_Witness ==
    /\ cc_ret.op = "on_timeout"
    /\ cc.congested /\ cc.last_decrease_time = now
    /\ cc.initial_rate = 500 /\ cc.current_rate = Whole(cc.min_rate)
    /\ cc_hist.decreased_by = "on_timeout"

\* C22: in every state of a controller (after construction with
\* min_rate <= initial_rate <= max_rate, after every rate change and after
\* reset) the pacing bucket has rate r and burst max(10, floor(r / 10)).
C22_PacingBucketFollowsRate ==
    /\ cc.pacing_bucket.rate = cc.current_rate
    /\ cc.pacing_bucket.burst = Max(10, Floor(FracMul(cc.current_rate, 1, 10)))

---------------------------------------------------------------------------
(* Properties of the admission controller *)

\* a step that is the call admit(pri) on the admission controller
AdmitStep(pri) ==
    /\ adm_ret'.op = "admit" /\ adm_ret'.priority = pri
    /\ adm_ret'.calls = adm_ret.calls + 1 /\ now' = now

\* the tokens bucket b holds at clock value t:
\* min(burst, tokens + elapsed_ms / 1000 * rate)
AvailableAt(b, t) ==
    FracMin(Whole(b.burst),
            FracAdd(b.tokens, Frac((t - b.last_update) * b.rate, 1000)))

\* C23: with limits enabled (the class has a bucket, and CRITICAL is not
\* exempted), admit(p) returns true iff class p's bucket holds at least one
\* token; it then takes exactly one token from that bucket and adds one to
\* admitted[p], and otherwise adds one to rejected[p] and takes none; the
\* buckets and counters of every other class are unchanged; the call
\* returns without waiting and queues nothing.
C23_AdmitConsumesOneTokenOfClass ==
    [][\A p \in Priority :
         (/\ AdmitStep(p)
          /\ p \in DOMAIN admission.buckets
          /\ (p = CRITICAL => admission.enable_critical_limit))
         => LET available == AvailableAt(admission.buckets[p], now)
                ok == adm_ret'.ok
            IN /\ ok <=> FracLeq(Whole(1), available)
               /\ admission'.buckets[p].tokens =
                     IF ok THEN FracSub(available, Whole(1)) ELSE available
               /\ admission'.stats[p].admitted =
                     admission.stats[p].admitted + (IF ok THEN 1 ELSE 0)
               /\ admission'.stats[p].rejected =
                     admission.stats[p].rejected + (IF ok THEN 0 ELSE 1)
               /\ \A q \in Priority \ {p} :
                     /\ admission'.stats[q] = admission.stats[q]
                     /\ q \in DOMAIN admission.buckets =>
                           admission'.buckets[q] = admission.buckets[q]
               /\ DOMAIN admission'.buckets = DOMAIN admission.buckets
               /\ queue' = queue /\ waiter' = waiter
      ]_vars

\* a class has had a packet admitted with its last token, and after a
\* millisecond (not enough for a new token) has just had one rejected,
\* another class having admitted a packet as well
C23_Witness ==
    /\ adm_ret.op = "admit" /\ ~adm_ret.ok
    /\ admission.stats[adm_ret.priority].admitted = 1
    /\ admission.stats[adm_ret.priority].rejected = 1
    /\ admission.buckets[adm_ret.priority].tokens = <<1, 2>>
    /\ \E q \in Priority \ {adm_ret.priority} : admission.stats[q].admitted = 1

---------------------------------------------------------------------------
(* Properties of the advisory send rate and of the FIFO scheduler *)

\* max(50, rate * 0.5) on set_congested(true), min(1000, rate * 1.2) on
\* set_congested(false)
AdvisoryRateAfter(rate, c) ==
    IF c THEN FracMax(Whole(50), FracMul(rate, 1, 2))
         ELSE FracMin(Whole(1000), FracMul(rate, 6, 5))

WithinAdvisoryLimits(rate) ==
    FracLeq(Whole(50), rate) /\ FracLeq(rate, Whole(1000))

RECURSIVE RateAfterHalvings(_)
RateAfterHalvings(k) ==
    IF k = 0 THEN Whole(500)
    ELSE AdvisoryRateAfter(RateAfterHalvings(k - 1), TRUE)

\* C25: the mutators of DTPScheduler, set_congested among them, run under
\* the scheduler's lock, so concurrent calls take effect one after the
\* other and none is lost: once k calls set_congested(true) (and no call
\* set_congested(false)) have returned and none is running, the rate is
\* the one k successive halvings give (two concurrent calls from 500
\* leave 125).
C25_ConcurrentSetCongestedSerialised ==
    (/\ \A t \in SetterThreads : setter[t].pc = "idle"
     /\ set_calls.false = 0)
    => send_rate = RateAfterHalvings(set_calls.true)

---------------------------------------------------------------------------
(* Properties of batching *)

\* a step that is the batching call op
BatchStep(op) ==
    batch_ret'.op = op /\ batch_hist'.calls = batch_hist.calls + 1

\* C26: the packets of every batch returned by add_to_batch or flush_all
\* carry the BATCHED flag and one shared batch_id; the batch_ids of
\* successive non-empty flushes start at 1 and are strictly increasing;
\* add_to_batch flushes as soon as the buffer holds batch_size packets, so
\* the buffer holds fewer than batch_size packets after every call; after
\* a flush the buffer is empty; and flush_all on an empty buffer returns an
\* empty list and uses no batch_id.
C26_BatchesTaggedAndNumbered ==
    /\ [](LET l == batch_ret.batch
              ids == batch_hist.ids
          IN /\ \A i \in 1..Len(l) :
                   /\ HasFlag(l[i].flags, BATCHED)
                   /\ l[i].batch_id = l[1].batch_id
             /\ ids # <<>> => ids[1] = 1
             /\ \A i \in 1..(Len(ids) - 1) : ids[i] < ids[i + 1]
             /\ Len(batching.current) < batching.size)
    /\ [][(/\ BatchStep("add_to_batch")
           /\ Len(batching.current) + 1 >= batching.size)
          => /\ ~batch_ret'.none
             /\ Len(batch_ret'.batch) = Len(batching.current) + 1
         ]_vars
    /\ [][(/\ BatchStep("add_to_batch") \/ BatchStep("flush_all")
           /\ ~batch_ret'.none)
          => /\ batching'.current = <<>>
             /\ batching'.start_time = None
         ]_vars
    /\ [][(BatchStep("flush_all") /\ batching.current = <<>>)
          => /\ batch_ret'.batch = <<>>
             /\ batching'.id = batching.id
             /\ batch_hist'.ids = batch_hist.ids
         ]_vars

\* add_to_batch has just returned the second batch of a scheduler with
\* batch_size 2: two packets of different classes, both tagged with id 2
C26_Witness ==
    /\ batch_ret.op = "add_to_batch" /\ ~batch_ret.none
    /\ Len(batch_ret.batch) = 2 /\ batching.size = 2
    /\ batch_ret.batch[1].priority # batch_ret.batch[2].priority
    /\ batch_ret.batch[2].batch_id = 2
    /\ batch_hist.ids = <<1, 2>> /\ batching.current = <<>>

---------------------------------------------------------------------------
(* Properties of the clock synchronisation                                  *)

\* the rounds of the running (or last) sync call in which recvfrom returned
\* a SYNC_RESP that echoes the round's own t1
SuccessfulRounds ==
    SelectSeq(sync_hist.samples,
              LAMBDA r : /\ r.kind = "received"
                         /\ r.pkt.ptype = SYNC_RESP
                         /\ r.pkt.t1 = r.t1)

\* ((t2 - t1) + (t3 - t4)) / 2 and (t4 - t1) - (t3 - t2) of those rounds
RoundOffsets ==
    [k \in 1..Len(SuccessfulRounds) |->
        LET r == SuccessfulRounds[k]
        IN Frac((r.pkt.t2 - r.t1) + (r.pkt.t3 - r.t4), 2)]

RoundRtts ==
    [k \in 1..Len(SuccessfulRounds) |->
        LET r == SuccessfulRounds[k]
        IN Whole((r.t4 - r.t1) - (r.pkt.t3 - r.pkt.t2))]

\* the k-th smallest of the values xs: at least k of them are no larger,
\* and at least Len(xs) - k + 1 are no smaller
OrderStatistic(xs, k) ==
    CHOOSE v \in {xs[i] : i \in 1..Len(xs)} :
        /\ Cardinality({i \in 1..Len(xs) : FracLeq(xs[i], v)}) >= k
        /\ Cardinality({i \in 1..Len(xs) : FracLeq(v, xs[i])}) >= Len(xs) - k + 1

\* the middle value, or the mean of the two middle values
MedianOf(xs) ==
    IF Len(xs) % 2 = 1
    THEN OrderStatistic(xs, (Len(xs) + 1) \div 2)
    ELSE FracMul(FracAdd(OrderStatistic(xs, Len(xs) \div 2),
                         OrderStatistic(xs, Len(xs) \div 2 + 1)), 1, 2)

C28_FailedRoundsLeaveOffset ==
    /\ [](/\ Len(sync.offsets) = Len(SuccessfulRounds)
          /\ Len(sync.rtts) = Len(SuccessfulRounds)
          /\ (sync.pc = "done" /\ SuccessfulRounds = <<>>) =>
                (sync_ret.none /\ clock_offset = sync_hist.before))
    /\ [][clock_offset' # clock_offset =>
            (sync.pc # "done" /\ sync'.pc = "done"
             /\ SuccessfulRounds' # <<>>)]_vars

\* a second sync, made when the clock offset was not 0, has returned None
\* after its only round timed out
C28_Witness ==
    /\ sync.pc = "done"
    /\ sync_hist.calls = 2
    /\ Len(sync_hist.samples) = 1
    /\ sync_hist.samples[1].kind = "timeout"
    /\ sync_ret.none
    /\ clock_offset # Whole(0)
    /\ clock_offset = sync_hist.before

\* the one-way delays of a successful round r, measured on the client's
\* clock (the server's clock is theta ahead)
RequestDelay(r) == (r.pkt.t2 - sync_server.theta) - r.t1
ResponseDelay(r) == r.t4 - (r.pkt.t3 - sync_server.theta)

Symmetric(r) == RequestDelay(r) = ResponseDelay(r)

\* C29: with the server's clock a constant theta ahead of the client's, a
\* successful round whose request and response took equally long yields the
\* offset theta exactly and the rtt the sum of the two delays, whatever the
\* server's processing time t3 - t2; so a sync all of whose successful
\* rounds were symmetric returns offset_ms = theta, and when each of them
\* had a round trip of 20 ms its accuracy_ms is 10 (with theta = 100: offset
\* 100, accuracy 10).
C29_SymmetricDelaysGiveTheta ==
    /\ Len(sync.offsets) = Len(SuccessfulRounds)
    /\ Len(sync.rtts) = Len(SuccessfulRounds)
    /\ \A k \in 1..Len(SuccessfulRounds) :
          LET r == SuccessfulRounds[k]
          IN Symmetric(r) =>
                /\ sync.offsets[k] = Whole(sync_server.theta)
                /\ sync.rtts[k] = Whole(RequestDelay(r) + ResponseDelay(r))
    /\ (/\ sync.pc = "done"
        /\ SuccessfulRounds # <<>>
        /\ \A k \in 1..Len(SuccessfulRounds) : Symmetric(SuccessfulRounds[k]))
       => /\ sync_ret.offset_ms = Whole(sync_server.theta)
          /\ (\A k \in 1..Len(SuccessfulRounds) :
                 RequestDelay(SuccessfulRounds[k]) = 10)
             => (sync_ret.rtt_ms = Whole(20) /\ sync_ret.accuracy_ms = Whole(10))

\* against a server 100 ms ahead, a sync of two rounds with one-way delays
\* of 10 ms each way and different processing times has returned offset 100
\* and accuracy 10
C29_Witness ==
    /\ sync.pc = "done"
    /\ sync_server.theta = 100
    /\ Len(SuccessfulRounds) = 2
    /\ \A k \in 1..2 : /\ Symmetric(SuccessfulRounds[k])
                       /\ RequestDelay(SuccessfulRounds[k]) = 10
    /\ SuccessfulRounds[1].pkt.t3 - SuccessfulRounds[1].pkt.t2
          # SuccessfulRounds[2].pkt.t3 - SuccessfulRounds[2].pkt.t2
    /\ sync_ret.offset_ms = Whole(100)
    /\ sync_ret.accuracy_ms = Whole(10)

---------------------------------------------------------------------------
(* Properties of the FIFO scheduler                                         *)

\* C30: the SimpleScheduler's queue holds the accepted packets that were
\* not yet returned, in the order of their acceptance, and dequeue returns
\* the earliest accepted of them, whatever the priorities and deadlines and
\* whether or not it has expired; an enqueue on a full queue returns false,
\* adds one to dropped and leaves the queued packets as they were.
C30_SimpleSchedulerIsFifo ==
    /\ [](simple_hist.accepted = simple_hist.returned \o simple.queue)
    /\ [][simple_hist'.returned # simple_hist.returned =>
            /\ simple_ret'.op = "dequeue"
            /\ simple_ret'.pkt = simple_hist.accepted[Len(simple_hist.returned) + 1]
            /\ simple_hist'.returned = Append(simple_hist.returned, simple_ret'.pkt)
            /\ simple'.queue = Tail(simple.queue)]_vars
    /\ [][(/\ simple_hist'.offered = simple_hist.offered + 1
           /\ Len(simple.queue) >= simple.max_size) =>
            /\ simple_ret'.op = "enqueue"
            /\ ~simple_ret'.ok
            /\ simple'.stats.dropped = simple.stats.dropped + 1
            /\ simple'.stats.enqueued = simple.stats.enqueued
            /\ simple'.queue = simple.queue]_vars

\* with a packet dropped on the full queue, dequeue has returned a LOW
\* packet that had expired while a CRITICAL packet accepted after it waits
C30_Witness ==
    /\ simple_ret.op = "dequeue"
    /\ simple_ret.ok
    /\ simple_ret.pkt.priority = LOW
    /\ is_expired(simple_ret.pkt, now)
    /\ simple.queue # <<>>
    /\ Head(simple.queue).priority = CRITICAL
    /\ simple.stats.dropped >= 1

---------------------------------------------------------------------------
(* Properties of the receiver                                               *)

\* the datagram a step hands to _handle_packet: the one that leaves the
\* network in that step
Handed == in_flight[1]
IsHandling == in_flight # <<>> /\ in_flight' = <<>>

Malformed(d) == TooShort(d) \/ BadMagic(d) \/ BadEnum(d)

\* the fields of a well-formed datagram, read from its bytes
PriorityOf(d) == d[5]
FlagsOf(d) == d[6]
SequenceOf(d) == d[7] * 256 + d[8]
TimestampOf(d) == ((d[9] * 256 + d[10]) * 256 + d[11]) * 256 + d[12]
DeadlineOf(d) == d[19] * 256 + d[20]
ExpiredOnArrival(d) == TimestampOf(d) # 0 /\ now - TimestampOf(d) > DeadlineOf(d)

\* the per-class counters other than those of class p are unchanged
OtherClassesUnchanged(p) == \A q \in Priority \ {p} : metrics'[q] = metrics[q]

\* C31: a malformed datagram (short, wrong magic, unknown enum) changes no
\* metric and no counter and is answered by nothing; a well-formed one that
\* is expired on arrival adds one to dropped of its class and to nothing
\* else, and no ACK is sent; any other one is processed, which adds one to
\* received of its class, nothing to dropped, and sends one ACK with the
\* datagram's sequence number to its source if its flags carry RELIABLE and
\* no ACK otherwise.
C31_ReceiverOutcomes ==
    /\ [][(IsHandling /\ Malformed(Handed.data)) =>
            (metrics' = metrics /\ server' = server)]_vars
    /\ [][(IsHandling /\ ~Malformed(Handed.data)
             /\ ExpiredOnArrival(Handed.data)) =>
            LET p == PriorityOf(Handed.data)
            IN /\ metrics' = [metrics EXCEPT ![p].dropped_packets = @ + 1]
               /\ server' = [server EXCEPT !.packets_dropped = @ + 1]]_vars
    /\ [][(IsHandling /\ ~Malformed(Handed.data)
             /\ ~ExpiredOnArrival(Handed.data)) =>
            /\ metrics' = metrics
            /\ server'.pc = "processing"
            /\ server'.header.priority = PriorityOf(Handed.data)
            /\ server'.header.flags = FlagsOf(Handed.data)
            /\ server'.header.sequence = SequenceOf(Handed.data)
            /\ server'.addr = Handed.addr
            /\ server'.acks = server.acks
            /\ server'.packets_dropped = server.packets_dropped
            /\ server'.packets_processed = server.packets_processed]_vars
    /\ [][server.pc = "processing" =>
            LET p == server.header.priority
                reliable == (server.header.flags % 2) = 1
            IN /\ server'.pc = "idle"
               /\ metrics'[p].received_packets = metrics[p].received_packets + 1
               /\ metrics'[p].dropped_packets = metrics[p].dropped_packets
               /\ OtherClassesUnchanged(p)
               /\ server'.packets_processed = server.packets_processed + 1
               /\ server'.packets_dropped = server.packets_dropped
               /\ IF reliable
                  THEN /\ Len(server'.acks) = Len(server.acks) + 1
                       /\ SubSeq(server'.acks, 1, Len(server.acks)) = server.acks
                       /\ LET ack == server'.acks[Len(server'.acks)]
                          IN /\ ack.addr = server.addr
                             /\ ~Malformed(ack.data)
                             /\ ack.data[4] = ACK
                             /\ SequenceOf(ack.data) = server.header.sequence
                  ELSE server'.acks = server.acks]_<<metrics, server>>

\* a RELIABLE LOW datagram with sequence 65535 from the second source has
\* been received and acknowledged
C31_Witness ==
    /\ server.pc = "idle"
    /\ in_flight = <<>>
    /\ metrics[LOW].received_packets = 1
    /\ server.packets_processed = 1
    /\ Len(server.acks) = 1
    /\ server.acks[1].addr = "other"
    /\ SequenceOf(server.acks[1].data) = 65535

(* Properties of the client's life                                          *)

\* C32 (as the specification states it): a congestion-clear Timer that
\* fires after DTPClient.stop() has been called changes neither the
\* scheduler's congested flag nor its send rate and invokes no congestion
\* callback.
C32_TimerGuardedByRunning ==
    [][(client.stopped /\ client'.timers < client.timers)
          => /\ congested' = congested
             /\ send_rate' = send_rate
             /\ client'.on_congestion = client.on_congestion]_vars

LoopThreadsEnded ==
    /\ client.recv \in {"none", "done"}
    /\ client.sim \in {"none", "done"}
    /\ client.sender \in {"none", "done"}
    /\ responder.thread \in {"none", "done"}

\* C33 (as the specification states it): after stop() is called on the
\* client, the server or the clock-sync responder, in whatever state, every
\* loop thread of that subsystem eventually terminates.
C33_StopEndsLoopThreads ==
    (client.stopped \/ responder.stopped) ~> LoopThreadsEnded

\* the part of C33 that the code keeps: the receive loops, the serve loop
\* and the traffic generation loop end after stop()
C33_OtherLoopsEnd ==
    (client.stopped \/ responder.stopped)
       ~> /\ client.recv \in {"none", "done"}
          /\ client.sim \in {"none", "done"}
          /\ responder.thread \in {"none", "done"}

\* C34 (as the specification states it): the k-th DATA packet generated in
\* a run (k counted from 0) carries sequence k mod 2^16, a value that fits
\* the 16-bit header field.
C34_SequenceWraps ==
    [][client'.packet_index = client.packet_index + 1
          => /\ client'.packet.sequence
                   = client.packet_index % SequenceModulus
             /\ pack(client'.packet).ok]_vars

(* Properties of the queue's keys and counters                              *)

EnqueueSequence(e) == e.sort_key[3]
EqualClass(k1, k2) == k1[1] = k2[1] /\ k1[2] = k2[2]

\* the keys of the queue are distinct and their enqueue sequence numbers
\* are those of earlier accepted enqueues
KeysUnique ==
    /\ \A i, j \in 1..Len(queue) :
          queue[i].sort_key = queue[j].sort_key => i = j
    /\ \A e \in Entries(queue) : EnqueueSequence(e) < enqueue_order

\* an entry that stays in the queue keeps its key and its packet; the only
\* new entry is that of an accepted enqueue, keyed by the packet's
\* priority, its time to deadline at that moment and the next sequence number
KeysFixed ==
    /\ \A e \in Entries(queue') :
          \/ e \in Entries(queue)
          \/ /\ ret'.op = "enqueue" /\ ret'.ok
             /\ e.packet = ret'.pkt
             /\ e.sort_key = <<ret'.pkt.priority,
                               0 - time_to_deadline(ret'.pkt, now),
                               enqueue_order>>
    /\ enqueue_order' >= enqueue_order
    /\ (ret'.op = "enqueue" /\ ret'.ok)
          => /\ enqueue_order' = enqueue_order + 1
             /\ \E e \in Entries(queue') : EnqueueSequence(e) = enqueue_order

\* a dequeue that returns an entry leaves no earlier entry of the same
\* priority and the same time to deadline in the queue
ArrivalOrder ==
    (ret'.op = "dequeue" /\ ret'.ok)
       => \A e \in Entries(queue) :
             (EqualClass(e.sort_key, ret'.key)
              /\ EnqueueSequence(e) < ret'.key[3])
                => e \notin Entries(queue')

BatchAged ==
    /\ batching.current # <<>>
    /\ now - batching.start_time >= batching.timeout_ms

\* C36 (as the specification states it): a batch whose age has reached
\* batch_timeout_ms is eventually flushed, by the age threshold alone,
\* without waiting for a later add_to_batch or flush_all call.
C36_AgedBatchIsFlushed == BatchAged ~> (batching.current = <<>>)

\* the packets the scheduler accounts for: queued, returned by dequeue,
\* dropped as expired, dropped on a full queue
Accounted ==
    Len(queue) + stats.dequeued + stats.dropped_expired + stats.dropped_full

\* C37: over enqueue and dequeue calls (clear apart) every packet offered
\* to enqueue is accounted for exactly once: each enqueue call adds one to
\* queue_size + dequeued + dropped_expired + dropped_full and each dequeue
\* call leaves the sum alone, the sum being 0 at the start; and the
\* enqueued counter counts the enqueue calls that returned true.
C37_PacketConservation ==
    /\ (ret.op = "init" => Accounted = 0 /\ stats.enqueued = 0)
    /\ [][/\ ret'.op = "enqueue"
             => /\ Accounted' = Accounted + 1
                /\ stats'.enqueued
                      = stats.enqueued + (IF ret'.ok THEN 1 ELSE 0)
          /\ ret'.op \in {"dequeue", "none"}
             => /\ Accounted' = Accounted
                /\ stats'.enqueued = stats.enqueued]_vars

\* every enqueue so far was accepted and none of its packets was cleared
\* away: one was evicted from a full queue, one expired in the queue and
\* one was returned by dequeue
C37_Witness ==
    /\ stats.dropped_full > 0 /\ stats.dropped_expired > 0
    /\ stats.dequeued > 0
    /\ Accounted = stats.enqueued

\* C38 (as the specification states it): when an enqueue on a full queue
\* evicts an entry, the evicted entry's priority value is greater than or
\* equal to the incoming packet's: no queued packet is evicted to admit a
\* strictly less important one.
C38_EvictionFavoursImportant ==
    [][(ret'.op = "enqueue" /\ ret'.ok /\ Len(queue) >= max_size)
          => \A victim \in Entries(queue) \ Entries(queue') :
                victim.packet.priority >= ret'.pkt.priority]_vars

(* Properties of the simulation engine                                      *)

\* C39 (as the specification states it): from the return of stop() to the
\* next start(), no step of a completion monitor thread changes the
\* engine's state, which stop() left IDLE, or stores results.
C39_StoppedMonitorIsSilent ==
    [][(engine.stop_returned /\ engine'.stop_returned
        /\ engine'.monitor # engine.monitor)
          => /\ engine'.state = engine.state
             /\ engine'.results = engine.results]_vars

(* Properties of the rounds of a clock synchronisation                      *)

\* the round in progress has its own response among the datagrams delivered
\* to the client's socket
OwnResponseDelivered ==
    /\ sync.pc = "recv"
    /\ \E i \in DOMAIN sync_net.to_client :
          /\ sync_net.to_client[i].ptype = SYNC_RESP
          /\ sync_net.to_client[i].t1 = sync.t1

\* the step ends a round by receiving a response of the server to an
\* earlier round's request
RoundEndsOnLateResponse ==
    /\ Len(sync_hist'.samples) = Len(sync_hist.samples) + 1
    /\ LET s == sync_hist'.samples[Len(sync_hist'.samples)]
       IN /\ s.kind = "received"
          /\ s.pkt.ptype = SYNC_RESP
          /\ s.pkt.t1 # s.t1

\* no round took for its sample a response that echoes another round's t1
LateResponseNeverSampled ==
    \A k \in DOMAIN sync_hist.samples :
       LET s == sync_hist.samples[k]
       IN (s.kind = "received" /\ s.pkt.ptype = SYNC_RESP /\ s.pkt.t1 # s.t1)
             => ~sync_round(s.t1, s.t4, s.pkt).ok

\* C40 (as the specification states it): rounds are independent: a late
\* response of an abandoned round is never accepted as a sample, and a
\* round whose own response is delivered within its timeout yields a
\* sample, whatever late response is delivered with it.
C40_RoundsIndependent ==
    /\ []LateResponseNeverSampled
    /\ [][(OwnResponseDelivered /\ RoundEndsOnLateResponse)
             => Len(sync'.offsets) = Len(sync.offsets) + 1]_vars

====
